---- MODULE Spec2Model ----
(***************************************************************************)
(* A model of the SSI-IoV identity core: the Address Pool Manager          *)
(* (services/address_manager.py), the Identity Lifecycle Manager           *)
(* (services/did_services.py), the Policy Store (services/wallet_service.py)*)
(* and the consent evaluation of api/server.py and main.py, over an         *)
(* abstract ledger (services/blockchain_service.py).                        *)
(***************************************************************************)
EXTENDS Integers, Sequences, FiniteSets, TLC

VARIABLES
    addresses,      \* AddressManager.addresses: [available, used]
    addrFile,       \* data/addresses.json: [exists, available, used]
    registered,     \* ledger: the addresses whose users(address).isRegistered is set
    funded,         \* ledger: the test accounts with a balance > 0
    poolLog,        \* the last pool operation and what it returned
    pc,             \* concurrent pool: each thread's position in its call
    uid,            \* concurrent pool: each thread's user_id argument
    loc,            \* concurrent pool: each thread's locals
    held,           \* concurrent pool: the binding get_address returned to each thread
    calls,          \* concurrent pool: the calls begun so far
    ledgerUsers,    \* ledger: users(address) of the registered addresses
    docs,           \* ledger: didDocuments, DID -> stored JSON text
    keys,           \* DIDWallet: the DIDs whose key pair is stored
    signer,         \* DIDService.blockchain_service.account (0: Settings.ACCOUNT)
    nextUuid,       \* the next fresh uuid of create_user_dids
    lastOp,         \* the last Identity Lifecycle call and what it returned
    transfers,      \* per document, the new owners of its successful transfers
    idCalls,        \* the Identity Lifecycle calls made so far
    wallets,        \* WalletService.wallets: DID -> wallet record
    walletFiles,    \* did_wallet/<did>.json: DID -> saved JSON text
    policies,       \* the policy dicts the wallets refer to (0: default_policies)
    notifications,  \* WalletService.notifications
    messages,       \* WalletService.messages
    blocked_users,  \* WalletService.blocked_users
    permission,     \* the last check_permission call and what it returned
    interactions,   \* ledger: the recorded interactions, in order
    oracleCalls,    \* the calls made to the text-generation model
    evalLog,        \* the last GET /wallet/{did}/requests: each record's evaluation
    lastRecord,     \* the last DIDService.record_interaction call and what it returned
    served,         \* the wallet and consent calls served so far
    txPc,           \* per operation, where it stands in _build_and_send_transaction
    txAccount,      \* per operation, self.account
    txNonce,        \* per operation, the nonce it fetched
    txCount,        \* ledger: the transaction count of each account
    txLog,          \* ledger: the transactions sent to it and whether it took them
    inboxLog        \* the last pass of the vehicle page's inbox tab over the requests

poolVars == <<addresses, addrFile, registered, funded, poolLog>>
concVars == <<pc, uid, loc, held, calls>>
idVars == <<ledgerUsers, docs, keys, signer, nextUuid, lastOp, transfers, idCalls>>
walletVars == <<wallets, walletFiles, policies, notifications, messages, blocked_users,
                permission>>
consentVars == <<interactions, oracleCalls, evalLog, lastRecord, served>>
nonceVars == <<txPc, txAccount, txNonce, txCount, txLog>>
nonPoolVars == <<idVars, walletVars, consentVars, nonceVars, inboxLog>>
vars == <<addresses, addrFile, registered, funded, poolLog, pc, uid, loc, held, calls,
          ledgerUsers, docs, keys, signer, nextUuid, lastOp, transfers, idCalls,
          wallets, walletFiles, policies, notifications, messages, blocked_users,
          permission, interactions, oracleCalls, evalLog, lastRecord, served,
          txPc, txAccount, txNonce, txCount, txLog, inboxLog>>

----------------------------------------------------------------------------
(* Bounds *)

NumAccounts == 3        \* the length of test_accounts kept by the model
NumIds == 2             \* logical identities asking the pool for an address
NumThreads == 2         \* request threads running on one AddressManager
MaxCalls == 3           \* calls the request threads begin in one run

Accounts == 1..NumAccounts
Ids == 1..NumIds
Threads == 1..NumThreads

----------------------------------------------------------------------------
(* Address Pool Manager: data *)

PrivateKeyOf(a) == <<"key", a>>

AddressData(a) == [address |-> a, private_key |-> PrivateKeyOf(a)]

None == [address |-> 0, private_key |-> <<"key", 0>>]

EmptyUsed == [i \in {} |-> None]

EmptyAddresses == [available |-> <<>>, used |-> EmptyUsed]

NoFile == [exists |-> FALSE, available |-> <<>>, used |-> EmptyUsed]

Range(f) == {f[x] : x \in DOMAIN f}

DictSet(d, k, v) == [x \in (DOMAIN d) \cup {k} |-> IF x = k THEN v ELSE d[x]]

DictPop(d, k) == [x \in (DOMAIN d) \ {k} |-> d[x]]

UsedAddresses(used) == {used[i].address : i \in DOMAIN used}

AvailableAddresses(available) == {available[i].address : i \in DOMAIN available}

TestAccounts == [i \in 1..NumAccounts |-> AddressData(i)]

\* _save_addresses: json.dump(self.addresses) to the file
SaveAddresses(addrs) ==
    [exists |-> TRUE, available |-> addrs.available, used |-> addrs.used]

\* BlockchainService.is_address_registered: any exception of the query is
\* swallowed and answered False
IsAddressRegistered(a, reg, qfail) ==
    IF a \in qfail THEN FALSE ELSE a \in reg

----------------------------------------------------------------------------
(* Address Pool Manager: the operations, as one call each *)

\* _load_addresses, lines 34-38: the used bindings come from the file
LoadedUsed(file) == IF file.exists THEN file.used ELSE EmptyUsed

\* _load_addresses: qfail are the accounts whose registration query raises,
\* balfail says that w3.eth.get_balance raises (the ledger cannot be reached)
LoadAddresses(file, reg, fnd, qfail, balfail) ==
    LET used == LoadedUsed(file)
        usedAddrs == UsedAddresses(used)
        keep(d) == /\ d.address \notin usedAddrs
                   /\ d.address \in fnd
                   /\ ~IsAddressRegistered(d.address, reg, qfail)
        loaded == [available |-> SelectSeq(TestAccounts, keep), used |-> used]
        raised == balfail /\ (Accounts \ usedAddrs) # {}
        result == IF raised THEN EmptyAddresses ELSE loaded
    IN  [addresses |-> result, file |-> SaveAddresses(result), raised |-> raised]

\* get_address, lines 146-149 and 156-159: pop(0), bind, save, return
TakeFirst(addrs, id) ==
    LET d == Head(addrs.available)
        na == [available |-> Tail(addrs.available),
               used |-> DictSet(addrs.used, id, d)]
    IN  [addresses |-> na, file |-> SaveAddresses(na), result |-> d]

\* a get_address that gives up after the reload whatever it loaded
GetAddress_GiveUp(addrs, file, id, reg, fnd, qfail, balfail) ==
    IF id \in DOMAIN addrs.used
    THEN [addresses |-> addrs, file |-> file, result |-> addrs.used[id]]
    ELSE IF addrs.available # <<>>
    THEN TakeFirst(addrs, id)
    ELSE LET ld == LoadAddresses(file, reg, fnd, qfail, balfail)
         IN  [addresses |-> ld.addresses, file |-> ld.file, result |-> None]

\* get_address
GetAddress(addrs, file, id, reg, fnd, qfail, balfail) ==
    IF id \in DOMAIN addrs.used
    THEN [addresses |-> addrs, file |-> file, result |-> addrs.used[id]]
    ELSE IF addrs.available # <<>>
    THEN TakeFirst(addrs, id)
    ELSE LET ld == LoadAddresses(file, reg, fnd, qfail, balfail)
         IN  IF ld.addresses.available # <<>>
             THEN TakeFirst(ld.addresses, id)
             ELSE [addresses |-> ld.addresses, file |-> ld.file, result |-> None]

\* release_address
ReleaseAddress(addrs, file, id, reg, qfail) ==
    IF id \notin DOMAIN addrs.used
    THEN [addresses |-> addrs, file |-> file]
    ELSE LET d == addrs.used[id]
             na == [available |->
                        IF ~IsAddressRegistered(d.address, reg, qfail)
                        THEN Append(addrs.available, d)
                        ELSE addrs.available,
                    used |-> DictPop(addrs.used, id)]
         IN  [addresses |-> na, file |-> SaveAddresses(na)]

----------------------------------------------------------------------------
(* Identity documents and the ledger's function surface *)

NoDid == 0      \* Python's None where a DID is expected

\* one entry of a document's info list; owner_did = NoDid and has_prev = FALSE
\* stand for an absent key
Block(kind, vdid, wdid, owner) ==
    [kind |-> kind, vehicle_did |-> vdid, wallet_did |-> wdid,
     owner_did |-> owner, has_prev |-> FALSE, previous_owners |-> <<>>]

EmptyBlock == Block("empty", NoDid, NoDid, NoDid)

NullBlock == Block("null", NoDid, NoDid, NoDid)

\* register_vehicle, lines 548-554
OwnedVehicleBlock(vdid, wdid) == Block("OwnedVehicle", vdid, wdid, NoDid)

ServiceEndpoint(kind, ref, controller) ==
    [kind |-> kind, ref |-> ref, controller |-> controller]

\* DIDDocument.to_dict
DIDDocument(did, type, info, service) ==
    [id |-> did, type |-> type, info |-> info, authentication |-> <<did>>,
     credentials |-> <<>>, service |-> service]

NoDoc == DIDDocument(NoDid, <<>>, <<>>, <<>>)

NoDocs == [d \in {} |-> [json |-> NoDoc]]

NoUsers == [a \in {} |-> [entity |-> NoDid, wallet |-> NoDid]]

\* json.dumps / json.loads of a document: the text wraps the value
JsonDumps(d) == [json |-> d]

JsonLoads(text) == text.json

Outcomes == {"ok", "failed", "raised"}

\* store_did_document leaving the document on the ledger whatever it answers
StoreDidDocument_Always(ledgerDocs, did, text, out) ==
    [status |-> out = "ok", docs |-> DictSet(ledgerDocs, did, text)]

\* store_did_document: True only for a mined receipt with status 1; a raised
\* exception is caught and answered False
StoreDidDocument(ledgerDocs, did, text, out) ==
    IF out = "ok"
    THEN [status |-> TRUE, docs |-> DictSet(ledgerDocs, did, text)]
    ELSE [status |-> FALSE, docs |-> ledgerDocs]

\* get_did_document: the stored text parsed, else a document made up from
\* users(address), else None; any exception gives None
GetDidDocument(ledgerDocs, users, did, readfail) ==
    IF readfail THEN NoDoc
    ELSE IF did \in DOMAIN ledgerDocs THEN JsonLoads(ledgerDocs[did])
    ELSE IF \E a \in DOMAIN users : users[a].entity = did
    THEN DIDDocument(did, <<"User">>, <<>>, <<>>)
    ELSE NoDoc

\* register_user for the account of the service instance: refused for an
\* invalid type and for an account already registered, (False, msg) for a
\* failed receipt and for any exception
RegisterUser(users, account, validType, entity, wallet, out) ==
    IF ~validType \/ account \in DOMAIN users \/ out # "ok"
    THEN [success |-> FALSE, users |-> users]
    ELSE [success |-> TRUE,
          users |-> DictSet(users, account, [entity |-> entity, wallet |-> wallet])]

----------------------------------------------------------------------------
(* Policy Store and consent evaluation: data *)

NumParties == 2         \* identities holding wallets and exchanging requests
MaxRids == 2            \* request ids the callers choose from
MaxPending == 2         \* pending requests kept per wallet
MaxInteractions == 3    \* interactions the ledger records in one run
MaxServed == 3          \* wallet and consent calls served in one run
NumSenders == 2         \* operations that may be inside _build_and_send_transaction
MaxTx == 3              \* transactions sent to the ledger in one run

Parties == 1..NumParties
Rids == 1..MaxRids

\* two of the data types of default_policies, and one outside them
DataTypes == {"location", "driving_behavior"}

RequestedTypes == DataTypes \cup {"speed"}

RequesterTypes == {"emergency", "insurance"}

Policy(share_with, requires_consent, auto_share_emergency) ==
    [share_with |-> share_with, requires_consent |-> requires_consent,
     auto_share_emergency |-> auto_share_emergency]

DefaultPolicies ==
    [dt \in DataTypes |->
        IF dt = "location" THEN Policy({"emergency"}, TRUE, TRUE)
        ELSE Policy({"emergency", "insurance"}, TRUE, FALSE)]

PolicyChoices ==
    [share_with : SUBSET RequesterTypes, requires_consent : BOOLEAN,
     auto_share_emergency : BOOLEAN]

NoDict == [k \in {} |-> <<>>]

\* WalletService.__init__ on an empty wallet directory, and the ledger and
\* the model before any request
InitWalletState ==
    /\ wallets = NoDict
    /\ walletFiles = NoDict
    /\ policies = [ref \in {0} |-> DefaultPolicies]
    /\ notifications = NoDict
    /\ messages = NoDict
    /\ blocked_users = NoDict
    /\ permission = [called |-> FALSE, requester_type |-> "none", owner_did |-> NoDid,
                     data_type |-> "none", is_emergency |-> FALSE, found |-> FALSE,
                     policy |-> Policy({}, FALSE, FALSE), result |-> FALSE]
    /\ interactions = <<>>
    /\ oracleCalls = 0
    /\ evalLog = [did |-> NoDid, entries |-> <<>>, call |-> 0]
    /\ lastRecord = [called |-> FALSE, source |-> NoDid, resolved |-> FALSE, bound |-> 0,
                     signed_by |-> 0, out |-> "none", submitted |-> FALSE,
                     recorded |-> FALSE, tx_hash |-> FALSE]
    /\ served = 0

\* no transaction is being built and the accounts have sent none
InitNonces ==
    /\ txPc = [t \in 1..NumSenders |-> "idle"]
    /\ txAccount = [t \in 1..NumSenders |-> 0]
    /\ txNonce = [t \in 1..NumSenders |-> 0]
    /\ txCount = [a \in Accounts |-> 0]
    /\ txLog = <<>>

InitIdentityState ==
    /\ InitWalletState
    /\ InitNonces
    /\ inboxLog = [vehicle |-> NoDid, signals |-> {}, call |-> 0, requests |-> <<>>]
    /\ ledgerUsers = NoUsers
    /\ docs = NoDocs
    /\ keys = {}
    /\ signer = 0
    /\ nextUuid = 1
    /\ lastOp = [op |-> "init", ok |-> FALSE, cause |-> "none", entity |-> NoDid,
                 wallet |-> NoDid, address |-> 0, mode |-> "none"]
    /\ transfers = [d \in {} |-> <<>>]
    /\ idCalls = 0

----------------------------------------------------------------------------
(* The pool driven one call at a time *)

IdleThreads ==
    /\ pc = [t \in Threads |-> "idle"]
    /\ uid = [t \in Threads |-> 0]
    /\ loc = [t \in Threads |-> [data |-> None, usedAddrs |-> {}, i |-> 0]]
    /\ held = [t \in Threads |-> None]
    /\ calls = 0

\* AddressManager.__init__ on a fresh deployment: no file, nothing registered
InitPool ==
    /\ funded \in SUBSET Accounts
    /\ registered = {}
    /\ LET ld == LoadAddresses(NoFile, {}, funded, {}, FALSE)
       IN  addresses = ld.addresses /\ addrFile = ld.file
    /\ poolLog = [op |-> "init", id |-> 0, result |-> None]
    /\ IdleThreads
    /\ InitIdentityState

Acquire(id) ==
    \E qfail \in SUBSET Accounts, balfail \in BOOLEAN :
        LET r == GetAddress(addresses, addrFile, id, registered, funded, qfail, balfail)
        IN  /\ addresses' = r.addresses
            /\ addrFile' = r.file
            /\ poolLog' = [op |-> "acquire", id |-> id, result |-> r.result]
            /\ UNCHANGED <<registered, funded>>
            /\ UNCHANGED <<concVars, nonPoolVars>>

Release(id) ==
    \E qfail \in SUBSET Accounts :
        LET r == ReleaseAddress(addresses, addrFile, id, registered, qfail)
        IN  /\ addresses' = r.addresses
            /\ addrFile' = r.file
            /\ poolLog' = [op |-> "release", id |-> id, result |-> None]
            /\ UNCHANGED <<registered, funded>>
            /\ UNCHANGED <<concVars, nonPoolVars>>

\* a new AddressManager over the same file (DIDService.__init__, server startup)
Restart ==
    \E qfail \in SUBSET Accounts, balfail \in BOOLEAN :
        LET r == LoadAddresses(addrFile, registered, funded, qfail, balfail)
        IN  /\ addresses' = r.addresses
            /\ addrFile' = r.file
            /\ poolLog' = [op |-> IF r.raised THEN "reload_failed" ELSE "reload",
                            id |-> 0, result |-> None]
            /\ UNCHANGED <<registered, funded>>
            /\ UNCHANGED <<concVars, nonPoolVars>>

\* the holder of a bound address registers it (registerUser signed by it)
LedgerRegister(a) ==
    /\ a \in UsedAddresses(addresses.used)
    /\ a \notin registered
    /\ registered' = registered \cup {a}
    /\ poolLog' = [op |-> "register", id |-> 0, result |-> AddressData(a)]
    /\ UNCHANGED <<addresses, addrFile, funded>>
    /\ UNCHANGED <<concVars, nonPoolVars>>

NextPool ==
    \/ \E id \in Ids : Acquire(id)
    \/ \E id \in Ids : Release(id)
    \/ Restart
    \/ \E a \in Accounts : LedgerRegister(a)

SpecPool == InitPool /\ [][NextPool]_vars

----------------------------------------------------------------------------
(* The pool under concurrent request threads: one step per statement of     *)
(* get_address, _load_addresses and release_address. Every statement reads  *)
(* self.addresses afresh, so the threads share the one variable addresses.  *)

NoLocals == [data |-> None, usedAddrs |-> {}, i |-> 0]

InitConc ==
    /\ funded \in SUBSET Accounts
    /\ registered = {}
    /\ LET ld == LoadAddresses(NoFile, {}, funded, {}, FALSE)
       IN  addresses = ld.addresses /\ addrFile = ld.file
    /\ poolLog = [op |-> "init", id |-> 0, result |-> None]
    /\ pc = [t \in Threads |-> "idle"]
    /\ uid = [t \in Threads |-> 0]
    /\ loc = [t \in Threads |-> NoLocals]
    /\ held = [t \in Threads |-> None]
    /\ calls = 0
    /\ InitIdentityState

Goto(t, l) == pc' = [pc EXCEPT ![t] = l]

\* a request thread enters get_address(user_id)
CallGetAddress(t, id) ==
    /\ pc[t] = "idle"
    /\ calls < MaxCalls
    /\ calls' = calls + 1
    /\ Goto(t, "ga138")
    /\ uid' = [uid EXCEPT ![t] = id]
    /\ loc' = [loc EXCEPT ![t] = NoLocals]
    /\ UNCHANGED <<poolVars, held, nonPoolVars>>

\* a request thread enters release_address(user_id)
CallRelease(t, id) ==
    /\ pc[t] = "idle"
    /\ calls < MaxCalls
    /\ calls' = calls + 1
    /\ Goto(t, "rl183")
    /\ uid' = [uid EXCEPT ![t] = id]
    /\ loc' = [loc EXCEPT ![t] = NoLocals]
    /\ UNCHANGED <<poolVars, held, nonPoolVars>>

\* lines 138-142: the user already has an address
GA138(t) ==
    /\ pc[t] = "ga138"
    /\ UNCHANGED <<calls, nonPoolVars>>
    /\ IF uid[t] \in DOMAIN addresses.used
       THEN /\ held' = [held EXCEPT ![t] = addresses.used[uid[t]]]
            /\ Goto(t, "idle")
       ELSE /\ Goto(t, "ga145")
            /\ UNCHANGED held
    /\ UNCHANGED <<poolVars, uid, loc>>

\* line 145: if self.addresses['available']
GA145(t) ==
    /\ pc[t] = "ga145"
    /\ UNCHANGED <<calls, nonPoolVars>>
    /\ IF addresses.available # <<>> THEN Goto(t, "ga146") ELSE Goto(t, "ld29")
    /\ UNCHANGED <<poolVars, uid, loc, held>>

\* lines 146 and 156: address_data = available.pop(0); IndexError leaves the call
GA146(t) ==
    /\ pc[t] = "ga146"
    /\ UNCHANGED <<calls, nonPoolVars>>
    /\ IF addresses.available = <<>>
       THEN /\ Goto(t, "idle")
            /\ held' = [held EXCEPT ![t] = None]
            /\ UNCHANGED <<addresses, loc>>
       ELSE /\ loc' = [loc EXCEPT ![t].data = Head(addresses.available)]
            /\ addresses' = [addresses EXCEPT !.available = Tail(addresses.available)]
            /\ Goto(t, "ga147")
            /\ UNCHANGED held
    /\ UNCHANGED <<addrFile, registered, funded, poolLog, uid>>

\* lines 147 and 157: self.addresses['used'][user_id] = address_data
GA147(t) ==
    /\ pc[t] = "ga147"
    /\ UNCHANGED <<calls, nonPoolVars>>
    /\ addresses' = [addresses EXCEPT !.used = DictSet(addresses.used, uid[t], loc[t].data)]
    /\ Goto(t, "ga148")
    /\ UNCHANGED <<addrFile, registered, funded, poolLog, uid, loc, held>>

\* lines 148-149 and 158-159: save and return the pair
GA148(t) ==
    /\ pc[t] = "ga148"
    /\ UNCHANGED <<calls, nonPoolVars>>
    /\ addrFile' = SaveAddresses(addresses)
    /\ held' = [held EXCEPT ![t] = loc[t].data]
    /\ Goto(t, "idle")
    /\ UNCHANGED <<addresses, registered, funded, poolLog, uid, loc>>

\* line 152 into _load_addresses, line 29: a fresh addresses structure
LD29(t) ==
    /\ pc[t] = "ld29"
    /\ UNCHANGED <<calls, nonPoolVars>>
    /\ addresses' = EmptyAddresses
    /\ Goto(t, "ld35")
    /\ UNCHANGED <<addrFile, registered, funded, poolLog, uid, loc, held>>

\* lines 35-38: the used bindings are read from the file
LD35(t) ==
    /\ pc[t] = "ld35"
    /\ UNCHANGED <<calls, nonPoolVars>>
    /\ addresses' = [addresses EXCEPT !.used = IF addrFile.exists THEN addrFile.used ELSE @]
    /\ Goto(t, "ld85")
    /\ UNCHANGED <<addrFile, registered, funded, poolLog, uid, loc, held>>

\* line 85: used_addresses
LD85(t) ==
    /\ pc[t] = "ld85"
    /\ UNCHANGED <<calls, nonPoolVars>>
    /\ loc' = [loc EXCEPT ![t].usedAddrs = UsedAddresses(addresses.used), ![t].i = 1]
    /\ Goto(t, "ld88")
    /\ UNCHANGED <<poolVars, uid, held>>

\* lines 88-106: one turn of the loop over test_accounts
LD88(t) ==
    /\ pc[t] = "ld88"
    /\ UNCHANGED <<calls, nonPoolVars>>
    /\ LET i == loc[t].i
           a == TestAccounts[i].address
       IN  IF i > NumAccounts
           THEN /\ Goto(t, "ld109")
                /\ UNCHANGED <<addresses, loc>>
           ELSE IF a \in loc[t].usedAddrs
           THEN /\ loc' = [loc EXCEPT ![t].i = i + 1]
                /\ UNCHANGED <<addresses, pc>>
           ELSE \E balfail \in BOOLEAN, qfail \in {{}, {a}} :
                    IF balfail
                    THEN /\ Goto(t, "ld115")
                         /\ UNCHANGED <<addresses, loc>>
                    ELSE /\ loc' = [loc EXCEPT ![t].i = i + 1]
                         /\ addresses' =
                              IF a \in funded /\ ~IsAddressRegistered(a, registered, qfail)
                              THEN [addresses EXCEPT !.available = Append(@, TestAccounts[i])]
                              ELSE addresses
                         /\ UNCHANGED pc
    /\ UNCHANGED <<addrFile, registered, funded, poolLog, uid, held>>

\* line 109: save, back in get_address at line 155
LD109(t) ==
    /\ pc[t] = "ld109"
    /\ UNCHANGED <<calls, nonPoolVars>>
    /\ addrFile' = SaveAddresses(addresses)
    /\ Goto(t, "ga155")
    /\ UNCHANGED <<addresses, registered, funded, poolLog, uid, loc, held>>

\* lines 113-118: the handler resets the structure
LD115(t) ==
    /\ pc[t] = "ld115"
    /\ UNCHANGED <<calls, nonPoolVars>>
    /\ addresses' = EmptyAddresses
    /\ Goto(t, "ld119")
    /\ UNCHANGED <<addrFile, registered, funded, poolLog, uid, loc, held>>

\* line 119: and saves it
LD119(t) ==
    /\ pc[t] = "ld119"
    /\ UNCHANGED <<calls, nonPoolVars>>
    /\ addrFile' = SaveAddresses(addresses)
    /\ Goto(t, "ga155")
    /\ UNCHANGED <<addresses, registered, funded, poolLog, uid, loc, held>>

\* lines 155 and 161: try again after the reload, or return None
GA155(t) ==
    /\ pc[t] = "ga155"
    /\ UNCHANGED <<calls, nonPoolVars>>
    /\ IF addresses.available # <<>>
       THEN Goto(t, "ga146") /\ UNCHANGED held
       ELSE Goto(t, "idle") /\ held' = [held EXCEPT ![t] = None]
    /\ UNCHANGED <<poolVars, uid, loc>>

\* line 183: if user_id in self.addresses['used']
RL183(t) ==
    /\ pc[t] = "rl183"
    /\ UNCHANGED <<calls, nonPoolVars>>
    /\ IF uid[t] \in DOMAIN addresses.used THEN Goto(t, "rl184") ELSE Goto(t, "idle")
    /\ UNCHANGED <<poolVars, uid, loc, held>>

\* line 184: address_data = used.pop(user_id); KeyError leaves the call
RL184(t) ==
    /\ pc[t] = "rl184"
    /\ UNCHANGED <<calls, nonPoolVars>>
    /\ IF uid[t] \notin DOMAIN addresses.used
       THEN /\ Goto(t, "idle")
            /\ UNCHANGED <<addresses, loc>>
       ELSE /\ loc' = [loc EXCEPT ![t].data = addresses.used[uid[t]]]
            /\ addresses' = [addresses EXCEPT !.used = DictPop(@, uid[t])]
            /\ Goto(t, "rl187")
    /\ UNCHANGED <<addrFile, registered, funded, poolLog, uid, held>>

\* lines 186-194: back to the pool unless registered
RL187(t) ==
    /\ pc[t] = "rl187"
    /\ UNCHANGED <<calls, nonPoolVars>>
    /\ \E qfail \in {{}, {loc[t].data.address}} :
           addresses' =
              IF ~IsAddressRegistered(loc[t].data.address, registered, qfail)
              THEN [addresses EXCEPT !.available = Append(@, loc[t].data)]
              ELSE addresses
    /\ Goto(t, "rl195")
    /\ UNCHANGED <<addrFile, registered, funded, poolLog, uid, loc, held>>

\* line 195: save
RL195(t) ==
    /\ pc[t] = "rl195"
    /\ UNCHANGED <<calls, nonPoolVars>>
    /\ addrFile' = SaveAddresses(addresses)
    /\ Goto(t, "idle")
    /\ UNCHANGED <<addresses, registered, funded, poolLog, uid, loc, held>>

NextConc ==
    \/ \E t \in Threads, id \in Ids : CallGetAddress(t, id)
    \/ \E t \in Threads, id \in Ids : CallRelease(t, id)
    \/ \E t \in Threads : GA138(t)
    \/ \E t \in Threads : GA145(t)
    \/ \E t \in Threads : GA146(t)
    \/ \E t \in Threads : GA147(t)
    \/ \E t \in Threads : GA148(t)
    \/ \E t \in Threads : LD29(t)
    \/ \E t \in Threads : LD35(t)
    \/ \E t \in Threads : LD85(t)
    \/ \E t \in Threads : LD88(t)
    \/ \E t \in Threads : LD109(t)
    \/ \E t \in Threads : LD115(t)
    \/ \E t \in Threads : LD119(t)
    \/ \E t \in Threads : GA155(t)
    \/ \E t \in Threads : RL183(t)
    \/ \E t \in Threads : RL184(t)
    \/ \E t \in Threads : RL187(t)
    \/ \E t \in Threads : RL195(t)

SpecConc == InitConc /\ [][NextConc]_vars

\* C1: no two distinct identities hold the same address: the used bindings
\* are injective in every reachable state of the pool, also when get_address
\* calls of two identities interleave with each other and with the reload.
C1_UniqueAddress ==
    \A i, j \in DOMAIN addresses.used :
        i # j => addresses.used[i].address # addresses.used[j].address

\* C2: an address registered on the ledger is never in the available list,
\* whatever acquire, release and reload calls ran, including those whose
\* registration query failed.
C2_RegisteredNeverAvailable ==
    \A k \in DOMAIN addresses.available :
        addresses.available[k].address \notin registered

\* C11: while an identity is bound and is not itself released, every step
\* keeps its binding, and an acquire for it returns that binding and takes
\* nothing from the available list.
C11_AcquireIdempotent ==
    [][\A id \in DOMAIN addresses.used :
          \/ poolLog'.op = "release" /\ poolLog'.id = id
          \/ /\ id \in DOMAIN addresses'.used
             /\ addresses'.used[id] = addresses.used[id]
             /\ (poolLog'.op = "acquire" /\ poolLog'.id = id)
                   => /\ poolLog'.result = addresses.used[id]
                      /\ addresses'.available = addresses.available]_vars

\* C12: releasing an identity whose bound address is registered on the
\* ledger changes neither the available list nor the used bindings.
C12_ReleaseRegisteredNoOp ==
    [][(/\ poolLog'.op = "release"
        /\ poolLog'.id \in DOMAIN addresses.used
        /\ addresses.used[poolLog'.id].address \in registered)
          => addresses' = addresses]_vars

\* C13: a reload during which the ledger cannot be reached leaves the
\* available list, the used bindings and the pool file as they were.
C13_ReloadFailsSoft ==
    [][poolLog'.op = "reload_failed"
          => /\ addresses' = addresses
             /\ addrFile' = addrFile]_vars

\* C25: every acquire or release that changes the pool leaves the file equal
\* to the pool in memory (available and used), and a new manager loading the
\* file has every binding that existed before the restart.
C25_PersistAndRecover ==
    [][/\ (poolLog'.op \in {"acquire", "release"} /\ addresses' # addresses)
            => addrFile' = SaveAddresses(addresses')
       /\ poolLog'.op \in {"reload", "reload_failed"}
            => \A id \in DOMAIN addresses.used :
                  /\ id \in DOMAIN addresses'.used
                  /\ addresses'.used[id] = addresses.used[id]]_vars

\* C26: get_address for an identity without a binding answers None exactly
\* when available is empty before the call and still empty after the one
\* reload the call makes; the failed call leaves the pool and the file as
\* that one reload wrote them, with no binding for the identity.  A call that
\* answers an address took the head of available, loaded once if it was empty.
C26_FailsWhenStillEmpty ==
    [][(poolLog'.op = "acquire" /\ poolLog'.id \notin DOMAIN addresses.used)
          => IF poolLog'.result = None
             THEN /\ addresses.available = <<>>
                  /\ addresses'.available = <<>>
                  /\ poolLog'.id \notin DOMAIN addresses'.used
                  /\ \E qfail \in SUBSET Accounts, balfail \in BOOLEAN :
                     \E ld \in {LoadAddresses(addrFile, registered, funded,
                                               qfail, balfail)} :
                        addresses' = ld.addresses /\ addrFile' = ld.file
             ELSE /\ poolLog'.id \in DOMAIN addresses'.used
                  /\ addresses'.used[poolLog'.id] = poolLog'.result
                  /\ addresses.available # <<>>
                        => /\ poolLog'.result = Head(addresses.available)
                           /\ addresses'.available = Tail(addresses.available)
                  /\ addresses.available = <<>>
                        => \E qfail \in SUBSET Accounts, balfail \in BOOLEAN :
                           \E ld \in {LoadAddresses(addrFile, registered, funded,
                                                     qfail, balfail)} :
                              /\ ld.addresses.available # <<>>
                              /\ poolLog'.result = Head(ld.addresses.available)
                              /\ addresses'.available = Tail(ld.addresses.available)]_vars

\* an identity was refused after a reload that left another identity's
\* binding in place
C26_Witness ==
    /\ poolLog.op = "acquire"
    /\ poolLog.result = None
    /\ poolLog.id \notin DOMAIN addresses.used
    /\ addresses.used # EmptyUsed
    /\ addresses.available = <<>>

----------------------------------------------------------------------------
(* Identity Lifecycle Manager (DIDService), one call at a time *)

MaxUuid == 4            \* uuids create_user_dids may draw in one run
MaxInfo == 3            \* info blocks a document may grow to
MaxCreds == 1           \* credentials a document may grow to
MaxTransfers == 2       \* ownership transfers of one vehicle
MaxIdCalls == 3         \* Identity Lifecycle calls in one run

\* the state a DIDService call works on
IdState ==
    [addresses |-> addresses, addrFile |-> addrFile, registered |-> registered,
     ledgerUsers |-> ledgerUsers, docs |-> docs, keys |-> keys, signer |-> signer]

\* how the ledger and the key store answer during one call
Calm ==
    [qfail |-> {}, balfail |-> FALSE, validType |-> TRUE, reg |-> "ok", ent |-> "ok",
     wal |-> "ok", upd |-> "ok", keyraise |-> FALSE, readfail |-> FALSE]

\* a call stops at its first failing step, so one step fails per call; the
\* pool's queries fail independently of it
WithPoolFaults(faults) ==
    {[f EXCEPT !.qfail = q, !.balfail = b] :
        f \in faults, q \in {{}, Accounts}, b \in BOOLEAN}

Failures == Outcomes \ {"ok"}

CreateEnvs ==
    WithPoolFaults({Calm, [Calm EXCEPT !.validType = FALSE],
                    [Calm EXCEPT !.keyraise = TRUE]}
                   \cup {[Calm EXCEPT !.reg = o] : o \in Failures}
                   \cup {[Calm EXCEPT !.ent = o] : o \in Failures}
                   \cup {[Calm EXCEPT !.wal = o] : o \in Failures})

UpdateEnvs ==
    WithPoolFaults({Calm, [Calm EXCEPT !.readfail = TRUE]}
                   \cup {[Calm EXCEPT !.upd = o] : o \in Failures})

RegisterVehicleEnvs ==
    WithPoolFaults({Calm, [Calm EXCEPT !.keyraise = TRUE],
                    [Calm EXCEPT !.readfail = TRUE]}
                   \cup {[Calm EXCEPT !.reg = o] : o \in Failures}
                   \cup {[Calm EXCEPT !.ent = o] : o \in Failures}
                   \cup {[Calm EXCEPT !.wal = o] : o \in Failures}
                   \cup {[Calm EXCEPT !.upd = o] : o \in Failures})

\* address_manager.release_address(did) from within a DIDService call
ReleaseIn(S, did, e) ==
    LET r == ReleaseAddress(S.addresses, S.addrFile, did, S.registered, e.qfail)
    IN  [S EXCEPT !.addresses = r.addresses, !.addrFile = r.file]

\* create_did, lines 373-376, and set_account_address, lines 680-692: the
\* service instance is replaced only when the pool gave an address
WithAddress(S, r) ==
    [S EXCEPT !.addresses = r.addresses, !.addrFile = r.file,
              !.signer = IF r.result = None THEN @ ELSE r.result.address]

\* set_account_address
SetAccountAddress(S, did, e) ==
    WithAddress(S, GetAddress(S.addresses, S.addrFile, did, S.registered, funded,
                              e.qfail, e.balfail))

\* the ledger after register_user answered
WithRegistration(S, account, reg) ==
    IF reg.success
    THEN [S EXCEPT !.ledgerUsers = reg.users, !.registered = @ \cup {account}]
    ELSE S

\* a transfer that puts the replaced owner in front of the earlier ones
TransferOwner_Prepend(doc, did) ==
    LET info0 == IF doc.info = <<>> THEN <<EmptyBlock>> ELSE doc.info
        owner_info == info0[1]
        prev == IF owner_info.has_prev THEN owner_info.previous_owners ELSE <<>>
    IN  [doc EXCEPT !.info =
            [info0 EXCEPT ![1] =
                [owner_info EXCEPT !.has_prev = TRUE,
                                   !.previous_owners = <<owner_info.owner_did>> \o prev,
                                   !.owner_did = did]]]

\* update_did_document, lines 644-660: the transfer applied to info[0]
TransferOwner(doc, did) ==
    LET info0 == IF doc.info = <<>> THEN <<EmptyBlock>> ELSE doc.info
        owner_info == info0[1]
        prev == IF owner_info.has_prev THEN owner_info.previous_owners ELSE <<>>
    IN  [doc EXCEPT !.info =
            [info0 EXCEPT ![1] =
                [owner_info EXCEPT !.has_prev = TRUE,
                                   !.previous_owners = Append(prev, owner_info.owner_did),
                                   !.owner_did = did]]]

\* an update that puts the new block in place of the list
AppendInfo_Replace(doc, item) == [doc EXCEPT !.info = <<item>>]

\* update_did_document, line 593: owner_doc['info'].append(credential)
AppendInfo(doc, item) == [doc EXCEPT !.info = Append(@, item)]

\* an update that retypes the document it appends the credential to
AppendCredential_Retype(doc, item) ==
    [doc EXCEPT !.credentials = Append(@, item), !.type = <<"VerifiableCredential">>]

\* update_did_document, line 620: did_doc['credentials'].append(credential)
AppendCredential(doc, item) == [doc EXCEPT !.credentials = Append(@, item)]

\* update_did_document: which of the three branches runs
UpdateMode(car_did, credNone) ==
    IF car_did = NoDid THEN "info"
    ELSE IF ~credNone THEN "credential"
    ELSE "transfer"

\* update_did_document: the document the call reads and stores
UpdateTarget(did, car_did, credNone) ==
    IF UpdateMode(car_did, credNone) = "transfer" THEN car_did ELSE did

\* update_did_document, line 650 on: info[0] is None, and the test
\* 'previous_owners' not in owner_info raises
TransferRaises(doc) ==
    IF doc.info = <<>> THEN FALSE ELSE doc.info[1].kind = "null"

\* update_did_document: the document after the branch's change
UpdatedDocument(doc, mode, did, credNone, item) ==
    IF mode = "info" THEN AppendInfo(doc, IF credNone THEN NullBlock ELSE item)
    ELSE IF mode = "credential" THEN AppendCredential(doc, item)
    ELSE TransferOwner(doc, did)

\* update_did_document after set_account_address left the state S1 and
\* get_did_document answered doc
UpdateStore(S1, doc, mode, target, did, credNone, item, e) ==
    IF doc = NoDoc
    THEN [S |-> IF mode = "info" THEN ReleaseIn(S1, did, e) ELSE S1,
          status |-> FALSE, mode |-> mode, target |-> target]
    ELSE IF mode = "transfer" /\ TransferRaises(doc)
    THEN [S |-> S1, status |-> FALSE, mode |-> mode, target |-> target]
    ELSE IF e.upd = "ok"
    THEN [S |-> [S1 EXCEPT !.docs =
                    StoreDidDocument(S1.docs, target,
                        JsonDumps(UpdatedDocument(doc, mode, did, credNone, item)),
                        e.upd).docs],
          status |-> TRUE, mode |-> mode, target |-> target]
    ELSE [S |-> S1, status |-> FALSE, mode |-> mode, target |-> target]

\* update_did_document after set_account_address left the state S1
UpdateRead(S1, mode, target, did, credNone, item, e) ==
    UpdateStore(S1, GetDidDocument(S1.docs, S1.ledgerUsers, target, e.readfail),
                mode, target, did, credNone, item, e)

\* update_did_document(did, car_did, credential): credNone says credential is
\* None, item is the value otherwise
UpdateDidDocument(S, did, car_did, credNone, item, e) ==
    UpdateRead(SetAccountAddress(S, UpdateTarget(did, car_did, credNone), e),
               UpdateMode(car_did, credNone), UpdateTarget(did, car_did, credNone),
               did, credNone, item, e)

\* create_did, lines 384-385 and 410-417: the entity document
EntityDocument(entity_did, wallet_did) ==
    DIDDocument(entity_did, <<"Person", "VerifiableCredential">>, <<>>,
                <<ServiceEndpoint("wallet", wallet_did, entity_did)>>)

\* create_did, lines 385 and 426-433: the wallet document
WalletDocument(entity_did, wallet_did) ==
    DIDDocument(wallet_did, <<"VerifiableCredential", "Wallet">>, <<>>,
                <<ServiceEndpoint("entity", entity_did, entity_did)>>)

\* a create_did that does not look at the answer of the wallet document store
CreateDidCause_IgnoreWallet(acquired, registeredOk, keyraise, entityOk, walletOk) ==
    IF ~acquired THEN "exhausted"
    ELSE IF ~registeredOk THEN "register"
    ELSE IF keyraise THEN "keystore"
    ELSE IF ~entityOk THEN "entity_store"
    ELSE "none"

\* create_did: where the call stops ("none": it returns the documents)
CreateDidCause(acquired, registeredOk, keyraise, entityOk, walletOk) ==
    IF ~acquired THEN "exhausted"
    ELSE IF ~registeredOk THEN "register"
    ELSE IF keyraise THEN "keystore"
    ELSE IF ~entityOk THEN "entity_store"
    ELSE IF ~walletOk THEN "wallet_store"
    ELSE "none"

\* create_did: what the steps before the stop have written
CreateDidWritten(S, cause, entity_did, wallet_did, docs1, docs2) ==
    IF cause \in {"exhausted", "register", "keystore"} THEN S
    ELSE [S EXCEPT !.keys = @ \cup {entity_did, wallet_did},
                   !.docs = IF cause = "entity_store" THEN @
                            ELSE IF cause = "wallet_store" THEN docs1
                            ELSE docs2]

\* a create_did that releases only where registration was refused
CreateDidCompensate_RegisterOnly(S, entity_did, cause, e) ==
    IF cause = "register"
    THEN ReleaseIn(S, entity_did, e)
    ELSE S

\* create_did, lines 400, 423, 440 and 450-455: the compensation of a stop;
\* the handler of line 450 tests for a local named user_id, which create_did
\* never binds, so it releases nothing
CreateDidCompensate(S, entity_did, cause, e) ==
    IF cause \in {"register", "entity_store", "wallet_store"}
    THEN ReleaseIn(S, entity_did, e)
    ELSE S

\* register_vehicle, lines 479-518: the vehicle document
VehicleDocument(vehicle_did, wallet_did, owner_did) ==
    DIDDocument(vehicle_did, <<"VerifiableCredential", "Car">>,
                <<Block("vehicle", vehicle_did, NoDid, owner_did),
                  Block("WalletLink", NoDid, wallet_did, NoDid)>>, <<>>)

\* register_vehicle, lines 480 and 529-535: the vehicle's wallet document
VehicleWalletDocument(vehicle_did, wallet_did) ==
    DIDDocument(wallet_did, <<"VerifiableCredential", "VehicleWallet">>, <<>>,
                <<ServiceEndpoint("EntityLink", vehicle_did, NoDid)>>)

\* register_vehicle: where the call stops
RegisterVehicleCause(registeredOk, vehicleOk, walletOk, keyraise) ==
    IF ~registeredOk THEN "register"
    ELSE IF ~vehicleOk THEN "entity_store"
    ELSE IF ~walletOk THEN "wallet_store"
    ELSE IF keyraise THEN "keystore"
    ELSE "none"

\* register_vehicle: what the steps before the stop have written
RegisterVehicleWritten(S, cause, vehicle_did, wallet_did, docs1, docs2) ==
    IF cause = "register" THEN S
    ELSE IF cause = "entity_store" THEN S
    ELSE IF cause = "wallet_store" THEN [S EXCEPT !.docs = docs1]
    ELSE IF cause = "keystore" THEN [S EXCEPT !.docs = docs2]
    ELSE [S EXCEPT !.docs = docs2, !.keys = @ \cup {vehicle_did, wallet_did}]

\* register_vehicle, lines 490-493, 523-526, 539-542 and 567-571, and the
\* update of the owner's document at line 557, whose answer is only reported
RegisterVehicleEnd(S, cause, vehicle_did, wallet_did, owner_did, e) ==
    IF cause # "none"
    THEN [S |-> ReleaseIn(S, vehicle_did, e), status |-> FALSE]
    ELSE UpdateDidDocument(S, owner_did, NoDid, FALSE,
                           OwnedVehicleBlock(vehicle_did, wallet_did), e)

\* the value the credentials page hands over as credential
SampleItems == {Block("credential", 1, NoDid, NoDid)}

\* one more call made, and the state it leaves
SetIdState(S) ==
    /\ idCalls < MaxIdCalls
    /\ idCalls' = idCalls + 1
    /\ addresses' = S.addresses
    /\ addrFile' = S.addrFile
    /\ registered' = S.registered
    /\ ledgerUsers' = S.ledgerUsers
    /\ docs' = S.docs
    /\ keys' = S.keys
    /\ signer' = S.signer

\* the deployment one successful create_did of an earlier run has left: its
\* ledger entries, its key files and its binding in data/addresses.json
EarlierIdentity ==
    [addresses |-> [available |-> Tail(TestAccounts),
                    used |-> DictSet(EmptyUsed, 1, AddressData(1))],
     addrFile |-> SaveAddresses([available |-> Tail(TestAccounts),
                                 used |-> DictSet(EmptyUsed, 1, AddressData(1))]),
     registered |-> {1},
     ledgerUsers |-> DictSet(NoUsers, 1, [entity |-> 1, wallet |-> 2]),
     docs |-> DictSet(DictSet(NoDocs, 1, JsonDumps(EntityDocument(1, 2))),
                      2, JsonDumps(WalletDocument(1, 2))),
     keys |-> {1, 2},
     signer |-> 0]

\* DIDService.__init__ over a fresh deployment, or over the one an earlier
\* run has left
InitIdentity ==
    /\ funded = Accounts
    /\ poolLog = [op |-> "init", id |-> 0, result |-> None]
    /\ IdleThreads
    /\ lastOp = [op |-> "init", ok |-> FALSE, cause |-> "none", entity |-> NoDid,
                 wallet |-> NoDid, address |-> 0, mode |-> "none"]
    /\ transfers = [d \in {} |-> <<>>]
    /\ idCalls = 0
    /\ InitWalletState
    /\ InitNonces
    /\ inboxLog = [vehicle |-> NoDid, signals |-> {}, call |-> 0, requests |-> <<>>]
    /\ \/ /\ registered = {}
          /\ addresses = LoadAddresses(NoFile, {}, Accounts, {}, FALSE).addresses
          /\ addrFile = LoadAddresses(NoFile, {}, Accounts, {}, FALSE).file
          /\ ledgerUsers = NoUsers
          /\ docs = NoDocs
          /\ keys = {}
          /\ signer = 0
          /\ nextUuid = 1
       \/ /\ registered = EarlierIdentity.registered
          /\ addresses = EarlierIdentity.addresses
          /\ addrFile = EarlierIdentity.addrFile
          /\ ledgerUsers = EarlierIdentity.ledgerUsers
          /\ docs = EarlierIdentity.docs
          /\ keys = EarlierIdentity.keys
          /\ signer = EarlierIdentity.signer
          /\ nextUuid = 3

\* create_did(user_type, name)
CreateDid ==
    /\ nextUuid + 1 <= MaxUuid
    /\ \E e \in CreateEnvs :
       \E r \in {GetAddress(addresses, addrFile, nextUuid, registered, funded,
                            e.qfail, e.balfail)} :
       \E S1 \in {WithAddress(IdState, r)} :
       \E reg \in {RegisterUser(ledgerUsers, r.result.address, e.validType, nextUuid,
                                nextUuid + 1, e.reg)} :
       \E S2 \in {IF r.result = None THEN S1
                  ELSE WithRegistration(S1, r.result.address, reg)} :
       \E st1 \in {StoreDidDocument(S2.docs, nextUuid,
                       JsonDumps(EntityDocument(nextUuid, nextUuid + 1)), e.ent)} :
       \E st2 \in {StoreDidDocument(st1.docs, nextUuid + 1,
                       JsonDumps(WalletDocument(nextUuid, nextUuid + 1)), e.wal)} :
       \E cause \in {CreateDidCause(r.result # None, reg.success, e.keyraise,
                                    st1.status, st2.status)} :
       \E S3 \in {CreateDidWritten(S2, cause, nextUuid, nextUuid + 1,
                                   st1.docs, st2.docs)} :
           /\ SetIdState(CreateDidCompensate(S3, nextUuid, cause, e))
           /\ lastOp' = [op |-> "create_did", ok |-> cause = "none", cause |-> cause,
                         entity |-> nextUuid, wallet |-> nextUuid + 1,
                         address |-> r.result.address, mode |-> "none"]
    /\ nextUuid' = nextUuid + 2
    /\ UNCHANGED <<funded, poolLog, concVars, transfers, walletVars, consentVars, nonceVars, inboxLog>>

\* register_vehicle(car_did_document, owner_did)
RegisterVehicle(owner_did) ==
    /\ nextUuid + 1 <= MaxUuid
    /\ Len(GetDidDocument(docs, ledgerUsers, owner_did, FALSE).info) < MaxInfo
    /\ \E e \in RegisterVehicleEnvs :
       \E S1 \in {SetAccountAddress(IdState, nextUuid, e)} :
       \E reg \in {RegisterUser(S1.ledgerUsers, S1.signer, TRUE, nextUuid,
                                nextUuid + 1, e.reg)} :
       \E S2 \in {WithRegistration(S1, S1.signer, reg)} :
       \E st1 \in {StoreDidDocument(S2.docs, nextUuid,
                       JsonDumps(VehicleDocument(nextUuid, nextUuid + 1, owner_did)),
                       e.ent)} :
       \E st2 \in {StoreDidDocument(st1.docs, nextUuid + 1,
                       JsonDumps(VehicleWalletDocument(nextUuid, nextUuid + 1)),
                       e.wal)} :
       \E cause \in {RegisterVehicleCause(reg.success, st1.status, st2.status,
                                          e.keyraise)} :
       \E S3 \in {RegisterVehicleWritten(S2, cause, nextUuid, nextUuid + 1,
                                         st1.docs, st2.docs)} :
       \E end \in {RegisterVehicleEnd(S3, cause, nextUuid, nextUuid + 1, owner_did, e)} :
           /\ SetIdState(end.S)
           /\ lastOp' = [op |-> "register_vehicle", ok |-> cause = "none",
                         cause |-> cause, entity |-> nextUuid, wallet |-> nextUuid + 1,
                         address |-> S1.signer,
                         mode |-> IF end.status THEN "updated" ELSE "not_updated"]
    /\ nextUuid' = nextUuid + 2
    /\ UNCHANGED <<funded, poolLog, concVars, transfers, walletVars, consentVars, nonceVars, inboxLog>>

\* the document an update call would change stays within the bounds
UpdateWithinBounds(did, car_did, credNone) ==
    LET mode == UpdateMode(car_did, credNone)
        doc == GetDidDocument(docs, ledgerUsers, UpdateTarget(did, car_did, credNone),
                              FALSE)
    IN  IF mode = "info" THEN Len(doc.info) < MaxInfo
        ELSE IF mode = "credential" THEN Len(doc.credentials) < MaxCreds
        ELSE IF doc.info = <<>> THEN TRUE
        ELSE Len(doc.info[1].previous_owners) < MaxTransfers

\* the owner a transfer on the stored document of car_did replaces
ReplacedOwner(car_did) ==
    LET doc == GetDidDocument(docs, ledgerUsers, car_did, FALSE)
    IN  IF doc.info = <<>> THEN NoDid ELSE doc.info[1].owner_did

\* update_did_document(did, car_did, credential)
UpdateDoc(did, car_did, credNone, item) ==
    /\ UpdateWithinBounds(did, car_did, credNone)
    /\ \E e \in UpdateEnvs :
       \E r \in {UpdateDidDocument(IdState, did, car_did, credNone, item, e)} :
           /\ SetIdState(r.S)
           /\ lastOp' = [op |-> "update", ok |-> r.status, cause |-> "none",
                         entity |-> did, wallet |-> r.target,
                         address |-> r.S.signer, mode |-> r.mode]
           /\ transfers' =
                IF r.mode = "transfer" /\ r.status
                THEN DictSet(transfers, car_did,
                       Append(IF car_did \in DOMAIN transfers
                              THEN transfers[car_did] ELSE <<>>,
                              [old |-> ReplacedOwner(car_did), new |-> did]))
                ELSE transfers
    /\ UNCHANGED <<funded, poolLog, concVars, nextUuid, walletVars, consentVars, nonceVars, inboxLog>>

\* the entity DIDs drawn so far (create_user_dids draws the entity DID, then
\* the wallet DID): the pages offer users and vehicles by their entity DID
EntityDids == {d \in 1..(nextUuid - 1) : d % 2 = 1}

\* the callers' shapes: (recipient, car, credential) and (recipient, car) of
\* the credentials page, and (owner, None, data) as register_vehicle calls it
NextIdentity ==
    \/ CreateDid
    \/ \E owner_did \in EntityDids : RegisterVehicle(owner_did)
    \/ \E did \in EntityDids, car_did \in EntityDids \cup {NoDid}, credNone \in BOOLEAN,
          item \in SampleItems : UpdateDoc(did, car_did, credNone, item)

SpecIdentity == InitIdentity /\ [][NextIdentity]_vars

\* the first info block of a stored document ({} where info is empty)
FirstBlock(doc) == IF doc.info = <<>> THEN EmptyBlock ELSE doc.info[1]

\* C7: for a vehicle document, after N successful ownership transfers
\* previous_owners has length N, its entry i is the owner that transfer i
\* replaced (which, from the second transfer on, is the new owner of the
\* transfer before), and owner_did is the new owner of transfer N; a transfer
\* whose store fails is no successful transfer and leaves both fields alone.
C7_TransferOrder ==
    \A d \in DOMAIN docs :
        LET b == FirstBlock(JsonLoads(docs[d]))
            t == IF d \in DOMAIN transfers THEN transfers[d] ELSE <<>>
        IN  b.kind = "vehicle" =>
              /\ Len(b.previous_owners) = Len(t)
              /\ \A i \in 1..Len(t) : b.previous_owners[i] = t[i].old
              /\ \A i \in 1..(Len(t) - 1) : t[i + 1].old = t[i].new
              /\ Len(t) > 0 => b.owner_did = t[Len(t)].new

\* a vehicle was transferred MaxTransfers times, to different owners
C7_Witness ==
    \E d \in DOMAIN transfers :
        /\ d \in DOMAIN docs
        /\ FirstBlock(JsonLoads(docs[d])).kind = "vehicle"
        /\ Len(transfers[d]) = MaxTransfers
        /\ transfers[d][1].new # transfers[d][2].new
        /\ lastOp.mode = "transfer"
        /\ lastOp.ok

\* C8: over every call, a stored document keeps its id, its info blocks stay
\* in place unchanged except for owner_did and previous_owners of a block
\* (has_prev: the key is present), which change in the first block only, and
\* previous_owners only grows at its end.
C8_DocumentsGrowOnly ==
    [][\A d \in DOMAIN docs :
          /\ d \in DOMAIN docs'
          /\ JsonLoads(docs'[d]).id = JsonLoads(docs[d]).id
          /\ JsonLoads(docs[d]).id = d
          /\ Len(JsonLoads(docs'[d]).info) >= Len(JsonLoads(docs[d]).info)
          /\ \A i \in 1..Len(JsonLoads(docs[d]).info) :
                LET old == JsonLoads(docs[d]).info[i]
                    new == JsonLoads(docs'[d]).info[i]
                IN  /\ i > 1 => new = old
                    /\ [new EXCEPT !.owner_did = NoDid, !.has_prev = FALSE,
                                   !.previous_owners = <<>>]
                       = [old EXCEPT !.owner_did = NoDid, !.has_prev = FALSE,
                                     !.previous_owners = <<>>]
                    /\ Len(old.previous_owners) <= Len(new.previous_owners)
                    /\ SubSeq(new.previous_owners, 1, Len(old.previous_owners))
                       = old.previous_owners
      ]_vars

\* an owner's document took the block of a registered vehicle, and that
\* vehicle was then transferred
C8_Witness ==
    /\ lastOp.op = "update"
    /\ lastOp.mode = "transfer"
    /\ lastOp.ok
    /\ \E d \in DOMAIN docs :
          /\ FirstBlock(JsonLoads(docs[d])).kind = "OwnedVehicle"
          /\ FirstBlock(JsonLoads(docs[d])).vehicle_did \in DOMAIN transfers

\* C23: each update_did_document call runs one of three modes: it appends
\* one block to info of the owner's document, or one credential to credentials
\* of the subject's document, leaving every other field as it was, or it
\* transfers the vehicle document, the only mode that overwrites (in the
\* first info block); whatever the mode, every other document is unchanged.
C23_ThreeModes ==
    [][(lastOp'.op = "update" /\ idCalls' # idCalls)
          => /\ lastOp'.mode \in {"info", "credential", "transfer"}
             /\ DOMAIN docs \subseteq DOMAIN docs'
             /\ \A d \in DOMAIN docs' :
                   d # lastOp'.wallet => d \in DOMAIN docs /\ docs'[d] = docs[d]
             /\ (lastOp'.wallet \in DOMAIN docs
                    /\ docs'[lastOp'.wallet] # docs[lastOp'.wallet])
                  => \E old \in {JsonLoads(docs[lastOp'.wallet])} :
                     \E new \in {JsonLoads(docs'[lastOp'.wallet])} :
                        /\ lastOp'.mode = "info"
                              => /\ new.info # <<>>
                                 /\ new = [old EXCEPT !.info =
                                              Append(@, new.info[Len(new.info)])]
                        /\ lastOp'.mode = "credential"
                              => /\ new.credentials # <<>>
                                 /\ new = [old EXCEPT !.credentials =
                                              Append(@, new.credentials[Len(new.credentials)])]
                        /\ lastOp'.mode = "transfer"
                              => /\ [new EXCEPT !.info = old.info] = old
                                 /\ Len(new.info) = IF old.info = <<>> THEN 1
                                                    ELSE Len(old.info)
                                 /\ \A i \in 2..Len(new.info) : new.info[i] = old.info[i]
                                 /\ new.info[1].owner_did = lastOp'.entity]_vars

\* a document holds a credential, another block was appended to an info
\* list, and the last call transferred a vehicle
C23_Witness ==
    /\ lastOp.op = "update"
    /\ lastOp.mode = "transfer"
    /\ lastOp.ok
    /\ \E d \in DOMAIN docs : JsonLoads(docs[d]).credentials # <<>>
    /\ \E d \in DOMAIN docs : \E i \in DOMAIN JsonLoads(docs[d]).info :
          JsonLoads(docs[d]).info[i].kind \in {"credential", "null"}

\* C24: whenever register_vehicle reports success, the ownership record of
\* the new vehicle (vehicle_did, wallet_did, acquired_date) is in the info
\* list of a document on the ledger, the owner's.
C24_OwnershipRecorded ==
    (lastOp.op = "register_vehicle" /\ lastOp.ok)
        => \E d \in DOMAIN docs : \E i \in DOMAIN JsonLoads(docs[d]).info :
              JsonLoads(docs[d]).info[i] = OwnedVehicleBlock(lastOp.entity, lastOp.wallet)

\* C33: update_did_document, create_credential and record_interaction leave
\* the pool's bindings as they were: they bind no address and release none,
\* succeed or fail, the identity they name bound or not.
C33_OnlyCreationBinds ==
    [][(\/ lastOp'.op \in {"update", "create_credential"} /\ idCalls' # idCalls
        \/ lastRecord' # lastRecord)
          => addresses'.used = addresses.used]_vars

\* C9: when create_did fails at a ledger write after it acquired an address
\* (registration refused or raising, entity or wallet document store failing
\* or raising), the address is released before the call returns: the entity
\* DID holds no binding in the pool or its file, and the address is back in
\* the available list unless the ledger reports it registered.
C9_ReleaseOnLedgerFailure ==
    (lastOp.op = "create_did" /\ lastOp.cause \in {"register", "entity_store", "wallet_store"})
        => /\ ~lastOp.ok
           /\ lastOp.entity \notin DOMAIN addresses.used
           /\ lastOp.entity \notin DOMAIN addrFile.used
           /\ lastOp.address \notin registered
                => lastOp.address \in AvailableAddresses(addresses.available)

\* create_did registered the entity, stored its document, and failed to
\* store the wallet document
C9_Witness ==
    /\ lastOp.op = "create_did"
    /\ lastOp.cause = "wallet_store"
    /\ lastOp.address \in registered
    /\ lastOp.entity \in DOMAIN docs
    /\ lastOp.wallet \notin DOMAIN docs

\* C10: when create_did reports success, the entity is registered on the
\* ledger under the address the pool bound to it, and both documents are
\* stored, the entity document with a service endpoint naming the wallet DID
\* and the wallet document with one naming the entity DID.
C10_SuccessMeansStored ==
    (lastOp.op = "create_did" /\ lastOp.ok)
        => /\ lastOp.entity \in DOMAIN addresses.used
           /\ addresses.used[lastOp.entity].address = lastOp.address
           /\ lastOp.address \in DOMAIN ledgerUsers
           /\ ledgerUsers[lastOp.address] = [entity |-> lastOp.entity, wallet |-> lastOp.wallet]
           /\ lastOp.entity \in DOMAIN docs
           /\ lastOp.wallet \in DOMAIN docs
           /\ JsonLoads(docs[lastOp.entity]).id = lastOp.entity
           /\ JsonLoads(docs[lastOp.wallet]).id = lastOp.wallet
           /\ \E k \in DOMAIN JsonLoads(docs[lastOp.entity]).service :
                 JsonLoads(docs[lastOp.entity]).service[k].ref = lastOp.wallet
           /\ \E k \in DOMAIN JsonLoads(docs[lastOp.wallet]).service :
                 JsonLoads(docs[lastOp.wallet]).service[k].ref = lastOp.entity

\* create_did reported success in this run
C10_Witness ==
    /\ lastOp.op = "create_did"
    /\ lastOp.ok
    /\ idCalls > 0

----------------------------------------------------------------------------
(* Policy Store: services/wallet_service.py *)

outsideVars == <<poolVars, concVars, idVars, nonceVars, inboxLog>>

\* one more call is served
Serve ==
    /\ served < MaxServed
    /\ served' = served + 1

\* dict.get(k, [])
DictGet(d, k) == IF k \in DOMAIN d THEN d[k] ELSE <<>>

\* dict.update(u)
DictUpdate(d, u) ==
    [k \in (DOMAIN d) \cup (DOMAIN u) |-> IF k \in DOMAIN u THEN u[k] ELSE d[k]]

\* the wallet create_wallet builds; policies is default_policies.copy(), whose
\* inner dicts are the ones default_policies holds (reference 0)
NewWallet(did) == [did |-> did, policies |-> 0, pending_requests |-> <<>>]

\* json.dump of a wallet writes the policy values, not the references
SavedWallet(w, pols) ==
    JsonDumps([did |-> w.did, policies |-> pols[w.policies],
               pending_requests |-> w.pending_requests])

HasPolicy(ws, pols, owner_did, data_type) ==
    IF owner_did \notin DOMAIN ws THEN FALSE
    ELSE data_type \in DOMAIN pols[ws[owner_did].policies]

PolicyOf(ws, pols, owner_did, data_type) == pols[ws[owner_did].policies][data_type]

PermissionFor_ShareFirst(policy, requester_type, is_emergency) ==
    IF requester_type \notin policy.share_with THEN FALSE
    ELSE IF is_emergency /\ policy.auto_share_emergency THEN TRUE
    ELSE IF policy.requires_consent /\ ~is_emergency THEN FALSE
    ELSE TRUE

\* check_permission once the wallet and the policy are found
PermissionFor(policy, requester_type, is_emergency) ==
    IF is_emergency /\ policy.auto_share_emergency THEN TRUE
    ELSE IF requester_type \notin policy.share_with THEN FALSE
    ELSE IF policy.requires_consent /\ ~is_emergency THEN FALSE
    ELSE TRUE

PendingRequest(requester_did, data_type, is_emergency, n) ==
    [id |-> <<requester_did, data_type, n>>, sender |-> requester_did,
     data_type |-> data_type, is_emergency |-> is_emergency, status |-> "pending"]

\* the requests the loop of respond_to_request can match
PendingMatches(pending, requester_did, data_type) ==
    {i \in DOMAIN pending : /\ pending[i].sender = requester_did
                            /\ pending[i].data_type = data_type
                            /\ pending[i].status = "pending"}

IsBlocked(blocked, did, user_did) ==
    \E i \in DOMAIN DictGet(blocked, did) : DictGet(blocked, did)[i].did = user_did

\* create_wallet(did, entity_type)
CreateWallet(did) ==
    /\ Serve
    /\ IF did \notin DOMAIN wallets
       THEN /\ wallets' = DictSet(wallets, did, NewWallet(did))
            /\ notifications' = DictSet(notifications, did, <<>>)
            /\ messages' = DictSet(messages, did, <<>>)
            /\ blocked_users' = DictSet(blocked_users, did, <<>>)
            /\ walletFiles' = DictSet(walletFiles, did, SavedWallet(NewWallet(did), policies))
       ELSE UNCHANGED <<wallets, notifications, messages, blocked_users, walletFiles>>
    /\ UNCHANGED <<policies, permission, interactions, oracleCalls, evalLog, lastRecord, outsideVars>>

\* update_policy(did, data_type, policy): the second definition (line 92)
\* replaces the first, so nothing is saved
UpdatePolicy(did, data_type, policy) ==
    /\ Serve
    /\ IF HasPolicy(wallets, policies, did, data_type)
       THEN policies' = [policies EXCEPT ![wallets[did].policies][data_type] =
                                             DictUpdate(@, policy)]
       ELSE UNCHANGED policies
    /\ UNCHANGED <<wallets, walletFiles, notifications, messages, blocked_users, permission,
                   interactions, oracleCalls, evalLog, lastRecord, outsideVars>>

\* check_permission(requester_type, owner_did, data_type, is_emergency)
CheckPermission(requester_type, owner_did, data_type, is_emergency) ==
    /\ Serve
    /\ \E found \in {HasPolicy(wallets, policies, owner_did, data_type)} :
       \E policy \in {IF found THEN PolicyOf(wallets, policies, owner_did, data_type)
                      ELSE Policy({}, FALSE, FALSE)} :
          permission' = [called |-> TRUE, requester_type |-> requester_type,
                         owner_did |-> owner_did, data_type |-> data_type,
                         is_emergency |-> is_emergency, found |-> found, policy |-> policy,
                         result |-> IF found
                                    THEN PermissionFor(policy, requester_type, is_emergency)
                                    ELSE FALSE]
    /\ UNCHANGED <<wallets, walletFiles, policies, notifications, messages, blocked_users,
                   interactions, oracleCalls, evalLog, lastRecord, outsideVars>>

\* request_data_access(requester_did, owner_did, data_type, reason, is_emergency)
RequestDataAccess(requester_did, owner_did, data_type, is_emergency) ==
    /\ Serve
    /\ IF owner_did \in DOMAIN wallets
       THEN /\ Len(wallets[owner_did].pending_requests) < MaxPending
            /\ \E request \in {PendingRequest(requester_did, data_type, is_emergency,
                                             Len(wallets[owner_did].pending_requests))} :
                /\ wallets' = [wallets EXCEPT ![owner_did].pending_requests =
                                                  Append(@, request)]
                /\ IF owner_did \in DOMAIN notifications
                   THEN notifications' =
                            [notifications EXCEPT ![owner_did] =
                                Append(@, [type |-> "data_request", request_id |-> request.id])]
                   ELSE UNCHANGED notifications
       ELSE UNCHANGED <<wallets, notifications>>
    /\ UNCHANGED <<walletFiles, policies, messages, blocked_users, permission,
                   interactions, oracleCalls, evalLog, lastRecord, outsideVars>>

\* respond_to_request(owner_did, requester_did, data_type, approved)
WalletRespond(owner_did, requester_did, data_type, approved) ==
    /\ Serve
    /\ IF owner_did \notin DOMAIN wallets
       THEN UNCHANGED wallets
       ELSE \E ms \in {PendingMatches(wallets[owner_did].pending_requests,
                                      requester_did, data_type)} :
               IF ms = {}
               THEN UNCHANGED wallets
               ELSE \E i \in {m \in ms : \A j \in ms : m <= j} :
                       wallets' = [wallets EXCEPT ![owner_did].pending_requests[i].status =
                                       IF approved THEN "approved" ELSE "rejected"]
    /\ UNCHANGED <<walletFiles, policies, notifications, messages, blocked_users, permission,
                   interactions, oracleCalls, evalLog, lastRecord, outsideVars>>

\* block_user(did, user_did, reason)
BlockUser(did, user_did) ==
    /\ Serve
    /\ blocked_users' =
           DictSet(blocked_users, did,
                   IF IsBlocked(blocked_users, did, user_did)
                   THEN DictGet(blocked_users, did)
                   ELSE Append(DictGet(blocked_users, did), [did |-> user_did]))
    /\ UNCHANGED <<wallets, walletFiles, policies, notifications, messages, permission,
                   interactions, oracleCalls, evalLog, lastRecord, outsideVars>>

\* unblock_user(did, user_did)
UnblockUser(did, user_did) ==
    /\ Serve
    /\ IF did \in DOMAIN blocked_users
       THEN blocked_users' = [blocked_users EXCEPT ![did] =
                                 SelectSeq(@, LAMBDA user : user.did # user_did)]
       ELSE UNCHANGED blocked_users
    /\ UNCHANGED <<wallets, walletFiles, policies, notifications, messages, permission,
                   interactions, oracleCalls, evalLog, lastRecord, outsideVars>>

\* one WalletService on an empty wallet directory, the pool and the ledger
\* as a fresh deployment leaves them
InitWallets ==
    /\ funded = Accounts
    /\ registered = {}
    /\ addresses = LoadAddresses(NoFile, {}, Accounts, {}, FALSE).addresses
    /\ addrFile = LoadAddresses(NoFile, {}, Accounts, {}, FALSE).file
    /\ poolLog = [op |-> "init", id |-> 0, result |-> None]
    /\ IdleThreads
    /\ InitIdentityState

NextPolicy ==
    \/ \E did \in Parties : CreateWallet(did)
    \/ \E did \in Parties, data_type \in RequestedTypes, policy \in PolicyChoices :
          UpdatePolicy(did, data_type, policy)
    \/ \E requester_type \in RequesterTypes, owner_did \in Parties,
          data_type \in RequestedTypes, is_emergency \in BOOLEAN :
          CheckPermission(requester_type, owner_did, data_type, is_emergency)
    \/ \E requester_did \in Parties, owner_did \in Parties, data_type \in DataTypes,
          is_emergency \in BOOLEAN :
          RequestDataAccess(requester_did, owner_did, data_type, is_emergency)
    \/ \E owner_did \in Parties, requester_did \in Parties, data_type \in DataTypes,
          approved \in BOOLEAN :
          WalletRespond(owner_did, requester_did, data_type, approved)

SpecPolicy == InitWallets /\ [][NextPolicy]_vars

----------------------------------------------------------------------------
(* The vehicle page's inbox: main.py, _mechanic_vehicle_interaction *)

\* add_pending_request, lines 217-231, msgs being self.messages when it is
\* entered: create_wallet for a DID without a wallet, then the append
QueueRequest(did, request, msgs) ==
    /\ Len(IF did \in DOMAIN wallets THEN wallets[did].pending_requests ELSE <<>>)
          < MaxPending
    /\ \E ws \in {IF did \in DOMAIN wallets THEN wallets
                  ELSE DictSet(wallets, did, NewWallet(did))} :
          wallets' = [ws EXCEPT ![did].pending_requests = Append(@, request)]
    /\ IF did \in DOMAIN wallets
       THEN /\ messages' = msgs
            /\ UNCHANGED <<notifications, blocked_users, walletFiles>>
       ELSE /\ notifications' = DictSet(notifications, did, <<>>)
            /\ messages' = DictSet(msgs, did, <<>>)
            /\ blocked_users' = DictSet(blocked_users, did, <<>>)
            /\ walletFiles' = DictSet(walletFiles, did, SavedWallet(NewWallet(did), policies))

\* add_pending_request(did, request) as the pages call it, with a body that
\* carries its timestamp and no id: the id is made of the sender and the
\* clock's reading now, to the second (line 229)
AddPendingRequest(did, sender_did, timestamp, now) ==
    /\ Serve
    /\ QueueRequest(did, [id |-> <<sender_did, now>>, sender_did |-> sender_did,
                          timestamp |-> timestamp], messages)
    /\ UNCHANGED <<policies, permission, interactions, oracleCalls, evalLog, lastRecord,
                   poolVars, concVars, idVars, nonceVars, inboxLog>>

\* one pass of the inbox tab over get_pending_requests(vehicle_did), signals
\* being the markers the model's text would carry. Each request's block first
\* calls self.llm_service.process_request (line 933); LLMService defines no
\* such method, so the AttributeError takes the block to its handler at line
\* 1088 before the blocked test (948) and the motion rule (956-1008)
InboxTab(vehicle_did, signals) ==
    /\ Serve
    /\ inboxLog' = [vehicle |-> vehicle_did, signals |-> signals, call |-> served + 1,
                    requests |-> IF vehicle_did \in DOMAIN wallets
                                 THEN wallets[vehicle_did].pending_requests ELSE <<>>]
    /\ UNCHANGED <<walletVars, interactions, oracleCalls, evalLog, lastRecord,
                   poolVars, concVars, idVars, nonceVars>>

NextInbox ==
    \/ \E did \in Parties, sender_did \in Parties :
          AddPendingRequest(did, sender_did, served, served)
    \/ \E did \in Parties, user_did \in Parties : BlockUser(did, user_did)
    \/ \E did \in Parties, user_did \in Parties : UnblockUser(did, user_did)
    \/ \E vehicle_did \in Parties, signals \in SUBSET {"MOTION_SAFE", "SUSPICIOUS"} :
          InboxTab(vehicle_did, signals)

SpecInbox == InitWallets /\ [][NextInbox]_vars

\* C20: when the model's text for a request of the vehicle signals both not
\* motion-safe and suspicious, the pass denies the request, removes it from
\* pending_requests and blocks its sender, whose later requests are then cut
\* short as blocked.
C20_UnsafeSuspiciousBlocks ==
    [][(/\ inboxLog'.call # inboxLog.call
        /\ inboxLog'.signals = {"SUSPICIOUS"}
        /\ inboxLog'.vehicle \in DOMAIN wallets
        /\ wallets[inboxLog'.vehicle].pending_requests # <<>>)
          => \E i \in DOMAIN wallets[inboxLog'.vehicle].pending_requests :
                \E request \in {wallets[inboxLog'.vehicle].pending_requests[i]} :
                   /\ \A k \in DOMAIN wallets'[inboxLog'.vehicle].pending_requests :
                         wallets'[inboxLog'.vehicle].pending_requests[k].id # request.id
                   /\ IsBlocked(blocked_users', inboxLog'.vehicle, request.sender_did)]_vars

----------------------------------------------------------------------------
(* Consent evaluation: api/server.py and services/llm_service.py *)

MessageTypes == {"request"}

ResponseTypes == {"approval", "rejection"}

\* the lines an answer of the text-generation model is made of
DecisionApprove == "**Decision:** approve\n"

DecisionDeny == "**Decision:** deny\n"

WalletYes == "**User Wallet Approval:** yes"

WalletNo == "**User Wallet Approval:** no"

\* the answers the model is given to produce; "approve" is the word in prose
OracleTexts ==
    {<<>>, <<"approve">>, <<"approve", WalletNo>>, <<DecisionApprove>>,
     <<DecisionApprove, WalletNo>>, <<DecisionApprove, WalletYes>>,
     <<DecisionDeny, WalletNo>>}

\* what becomes of a transaction handed to _build_and_send_transaction: mined
\* and applied, mined and reverted (send_raw_transaction has returned the hash
\* by then), or an exception before the node took it (no connection, refused)
SubmitOutcomes == {"ok", "reverted", "raised"}

\* what one evaluation meets: get_prefrences or the model raising, or an
\* answer, and what then becomes of the response's transaction
OracleAnswers ==
    [raises : {"none"}, text : OracleTexts, out : {"ok"}]
        \cup {[raises |-> "none", text |-> <<DecisionApprove, WalletNo>>, out |-> o] :
                 o \in SubmitOutcomes}
        \cup {[raises |-> "preferences", text |-> <<>>, out |-> "ok"],
              [raises |-> "model", text |-> <<>>, out |-> "ok"]}

\* "approve" in decision_text or "approved" in decision_text
ContainsApprove(text) ==
    \E i \in DOMAIN text : text[i] \in {"approve", DecisionApprove}

\* re.search of decision_pattern: the first match, "None" without one
DecisionOf(text) ==
    IF \A i \in DOMAIN text : text[i] \notin {DecisionApprove, DecisionDeny} THEN "None"
    ELSE IF text[CHOOSE i \in DOMAIN text :
                    /\ text[i] \in {DecisionApprove, DecisionDeny}
                    /\ \A j \in 1..(i - 1) : text[j] \notin {DecisionApprove, DecisionDeny}]
            = DecisionApprove
         THEN "approve" ELSE "deny"

\* re.search of wallet_approval_pattern
WalletApprovalOf(text) ==
    IF \A i \in DOMAIN text : text[i] \notin {WalletYes, WalletNo} THEN "None"
    ELSE IF text[CHOOSE i \in DOMAIN text :
                    /\ text[i] \in {WalletYes, WalletNo}
                    /\ \A j \in 1..(i - 1) : text[j] \notin {WalletYes, WalletNo}]
            = WalletYes
         THEN "yes" ELSE "no"

\* evaluate_request answering a failure as it answers an approval
EvaluateRequest_FailOpen(answer) ==
    IF answer.raises # "none"
    THEN [invoked |-> answer.raises = "model", failed |-> TRUE, is_approved |-> TRUE,
          text |-> <<DecisionApprove, WalletNo>>]
    ELSE [invoked |-> TRUE, failed |-> FALSE, is_approved |-> ContainsApprove(answer.text),
          text |-> answer.text]

\* LLMService.evaluate_request; failed says that the except branch answered
EvaluateRequest(answer) ==
    IF answer.raises # "none"
    THEN [invoked |-> answer.raises = "model", failed |-> TRUE, is_approved |-> FALSE,
          text |-> <<"Error in request evaluation">>]
    ELSE [invoked |-> TRUE, failed |-> FALSE, is_approved |-> ContainsApprove(answer.text),
          text |-> answer.text]

Interaction(interaction_type, source, destination, request_id, response_type) ==
    [interaction_type |-> interaction_type, source_identifier |-> source,
     destination_identifier |-> destination, request_id |-> request_id,
     response_type |-> response_type]

\* a record as the ledger keeps it, with the account whose key signed its
\* transaction
Signed(record, account) ==
    [f \in DOMAIN record \cup {"signed_by"} |->
        IF f = "signed_by" THEN account ELSE record[f]]

\* DIDService.record_interaction for source_identifier: the service after
\* set_account_address, and what the call did and returned
RecordInteraction(S, source_identifier, out, e) ==
    LET T == SetAccountAddress(S, source_identifier, e)
    IN  [S |-> T,
         log |-> [called |-> TRUE, source |-> source_identifier,
                  resolved |-> source_identifier \in DOMAIN T.addresses.used,
                  bound |-> IF source_identifier \in DOMAIN T.addresses.used
                            THEN T.addresses.used[source_identifier].address ELSE 0,
                  signed_by |-> T.signer, out |-> out,
                  submitted |-> out # "raised", recorded |-> out = "ok",
                  tx_hash |-> out # "raised"]]

\* what the three handlers that record leave alone outside the wallets
recordFrame == <<registered, funded, poolLog, concVars, ledgerUsers, docs, keys, nextUuid,
                 lastOp, transfers, idCalls, nonceVars, inboxLog>>

\* get_entity_interactions(did)
EntityInteractions(ledger, did) ==
    SelectSeq(ledger, LAMBDA r : r.source_identifier = did \/ r.destination_identifier = did)

\* respond_to_request with the test of wallet_approval left out
RespondToRequest_AnyApproval(request, ev, blocked, out) ==
    [request_id |-> request.request_id,
     source |-> request.source_identifier,
     blocked |-> blocked,
     invoked |-> ev.invoked,
     failed |-> ev.failed,
     decision |-> DecisionOf(ev.text),
     wallet_approval |-> WalletApprovalOf(ev.text),
     llm_decision |-> ev.is_approved,
     out |-> out,
     returned |-> IF DecisionOf(ev.text) = "approve"
                  THEN IF out # "raised" THEN "success" ELSE "this is error"
                  ELSE "response_body",
     recorded |-> DecisionOf(ev.text) = "approve" /\ out = "ok"]

\* respond_to_request(request, responder_did) given what evaluate_request
\* returned and what becomes of the response's transaction: what it parsed,
\* what it answered and whether it recorded a response
RespondToRequest(request, ev, blocked, out) ==
    [request_id |-> request.request_id,
     source |-> request.source_identifier,
     blocked |-> blocked,
     invoked |-> ev.invoked,
     failed |-> ev.failed,
     decision |-> DecisionOf(ev.text),
     wallet_approval |-> WalletApprovalOf(ev.text),
     llm_decision |-> ev.is_approved,
     out |-> out,
     returned |-> IF WalletApprovalOf(ev.text) = "no" /\ DecisionOf(ev.text) = "approve"
                  THEN IF out # "raised" THEN "success" ELSE "this is error"
                  ELSE "response_body",
     recorded |-> /\ WalletApprovalOf(ev.text) = "no"
                  /\ DecisionOf(ev.text) = "approve"
                  /\ out = "ok"]

\* the responses one pass over the requests leaves on the ledger
ResponsesOf(entries, did, account) ==
    [i \in DOMAIN SelectSeq(entries, LAMBDA e : e.recorded) |->
        Signed(Interaction("response", did,
                           SelectSeq(entries, LAMBDA e : e.recorded)[i].source,
                           SelectSeq(entries, LAMBDA e : e.recorded)[i].request_id,
                           "approval"),
               account)]

\* POST /request-data
RequestData(sender_did, recipient_did, request_id, message_type, out, e) ==
    /\ Serve
    /\ Len(interactions) < MaxInteractions
    /\ \E message \in {[type |-> "https://didcomm.org/iov/1.0/request", from |-> sender_did,
                        to |-> recipient_did, request_id |-> request_id]} :
       \E stored \in {DictSet(messages, sender_did,
                              Append(DictGet(messages, sender_did), message))} :
          messages' = DictSet(stored, recipient_did,
                              Append(DictGet(stored, recipient_did), message))
    /\ \E r \in {RecordInteraction(IdState, sender_did, out, e)} :
          /\ addresses' = r.S.addresses
          /\ addrFile' = r.S.addrFile
          /\ signer' = r.S.signer
          /\ lastRecord' = r.log
          /\ interactions' = IF r.log.recorded
                             THEN Append(interactions,
                                         Signed(Interaction(message_type, sender_did,
                                                            recipient_did, request_id,
                                                            "none"),
                                                r.log.signed_by))
                             ELSE interactions
    /\ UNCHANGED <<wallets, walletFiles, policies, notifications, blocked_users, permission,
                   oracleCalls, evalLog, recordFrame>>

\* POST /respond-to-req/{request_id}
RespondToReq(request_id, responder_did, recipient_did, response_type, out, e) ==
    /\ Serve
    /\ Len(interactions) < MaxInteractions
    /\ \E r \in {RecordInteraction(IdState, responder_did, out, e)} :
          /\ addresses' = r.S.addresses
          /\ addrFile' = r.S.addrFile
          /\ signer' = r.S.signer
          /\ lastRecord' = r.log
          /\ interactions' = IF r.log.recorded
                             THEN Append(interactions,
                                         Signed(Interaction("response", responder_did,
                                                            recipient_did, request_id,
                                                            response_type),
                                                r.log.signed_by))
                             ELSE interactions
    /\ UNCHANGED <<walletVars, oracleCalls, evalLog, recordFrame>>

\* GET /wallet/{did}/requests: respond_to_request on every inbound record, the
\* pool and the ledger's queries answering alike throughout the pass
GetWalletRequests(did, e) ==
    /\ Serve
    /\ \E readfail \in BOOLEAN :
       \E requests \in {IF readfail THEN <<>> ELSE EntityInteractions(interactions, did)} :
       \E inbound \in {SelectSeq(requests, LAMBDA r : r.destination_identifier = did)} :
       \E answers \in [DOMAIN inbound -> OracleAnswers] :
       \E entries \in {[i \in DOMAIN inbound |->
                          RespondToRequest(inbound[i], EvaluateRequest(answers[i]),
                                           IsBlocked(blocked_users, did,
                                                     inbound[i].source_identifier),
                                           answers[i].out)]} :
       \E calls_made \in {{i \in DOMAIN entries : entries[i].returned # "response_body"}} :
       \E r \in {IF calls_made = {}
                 THEN [S |-> IdState, log |-> lastRecord]
                 ELSE RecordInteraction(IdState, did,
                                        answers[CHOOSE i \in calls_made :
                                                   \A j \in calls_made : j <= i].out,
                                        e)} :
          /\ Len(interactions) + Len(ResponsesOf(entries, did, r.S.signer))
                <= MaxInteractions
          /\ interactions' = interactions \o ResponsesOf(entries, did, r.S.signer)
          /\ oracleCalls' = oracleCalls
                              + Cardinality({i \in DOMAIN entries : entries[i].invoked})
          /\ evalLog' = [did |-> did, entries |-> entries, call |-> served + 1]
          /\ addresses' = r.S.addresses
          /\ addrFile' = r.S.addrFile
          /\ signer' = r.S.signer
          /\ lastRecord' = r.log
    /\ UNCHANGED <<walletVars, recordFrame>>

\* the server's services on an empty wallet directory; the pool holds the
\* funded accounts of the deployment, few enough that it can run out
InitConsent ==
    /\ \E fnd \in {{1}, Accounts} :
          /\ funded = fnd
          /\ addresses = LoadAddresses(NoFile, {}, fnd, {}, FALSE).addresses
          /\ addrFile = LoadAddresses(NoFile, {}, fnd, {}, FALSE).file
    /\ registered = {}
    /\ poolLog = [op |-> "init", id |-> 0, result |-> None]
    /\ IdleThreads
    /\ InitIdentityState

NextConsent ==
    \/ \E did \in Parties, user_did \in Parties : BlockUser(did, user_did)
    \/ \E did \in Parties, user_did \in Parties : UnblockUser(did, user_did)
    \/ \E sender_did \in Parties, recipient_did \in Parties, request_id \in Rids,
          message_type \in MessageTypes, out \in SubmitOutcomes,
          e \in WithPoolFaults({Calm}) :
          RequestData(sender_did, recipient_did, request_id, message_type, out, e)
    \/ \E request_id \in Rids, responder_did \in Parties, recipient_did \in Parties,
          response_type \in ResponseTypes, out \in SubmitOutcomes,
          e \in WithPoolFaults({Calm}) :
          RespondToReq(request_id, responder_did, recipient_did, response_type, out, e)
    \/ \E did \in Parties, e \in WithPoolFaults({Calm}) : GetWalletRequests(did, e)

SpecConsent == InitConsent /\ [][NextConsent]_vars

----------------------------------------------------------------------------
(* Claims about the consent engine *)

\* C3: a resolved request never changes state again: a wallet request that
\* left "pending" keeps its status, and a step records no further response
\* for a request id that is unknown to the ledger or already has a response.
C3_ResolvedIsFinal ==
    [][/\ \A d \in DOMAIN wallets : \A i \in DOMAIN wallets[d].pending_requests :
            wallets[d].pending_requests[i].status # "pending"
                => /\ d \in DOMAIN wallets'
                   /\ i \in DOMAIN wallets'[d].pending_requests
                   /\ wallets'[d].pending_requests[i] = wallets[d].pending_requests[i]
       /\ \A rid \in Rids :
            (\/ \A i \in DOMAIN interactions :
                    ~(interactions[i].interaction_type \in MessageTypes
                        /\ interactions[i].request_id = rid)
             \/ \E i \in DOMAIN interactions :
                    /\ interactions[i].interaction_type = "response"
                    /\ interactions[i].request_id = rid)
                => {i \in DOMAIN interactions' :
                        /\ interactions'[i].interaction_type = "response"
                        /\ interactions'[i].request_id = rid}
                   = {i \in DOMAIN interactions :
                        /\ interactions[i].interaction_type = "response"
                        /\ interactions[i].request_id = rid}]_vars

\* C4: for an answer without a Decision marker the evaluation reports no
\* approval and records no approval response on the ledger.
C4_NoMarkerNoApproval ==
    \A i \in DOMAIN evalLog.entries :
        evalLog.entries[i].decision = "None"
            => /\ ~evalLog.entries[i].llm_decision
               /\ ~evalLog.entries[i].recorded

\* C5: a request whose sender is in the destination's blocked_users is denied
\* without the text-generation model being called.
C5_BlockedDeniedWithoutOracle ==
    \A i \in DOMAIN evalLog.entries :
        evalLog.entries[i].blocked
            => /\ ~evalLog.entries[i].invoked
               /\ ~evalLog.entries[i].llm_decision
               /\ ~evalLog.entries[i].recorded

\* C6 as stated: the result of check_permission tells the three outcomes
\* apart, True standing for AutoApproved and False for AutoDenied, so a
\* request that needs the wallet's approval never gets the result of a denial.
C6_ThreeOutcomes ==
    (permission.called /\ permission.found)
        => LET p == permission.policy
               outcome == IF permission.is_emergency /\ p.auto_share_emergency
                          THEN "AutoApproved"
                          ELSE IF permission.requester_type \notin p.share_with
                          THEN "AutoDenied"
                          ELSE IF p.requires_consent /\ ~permission.is_emergency
                          THEN "NeedsWalletApproval"
                          ELSE "AutoApproved"
           IN  /\ outcome = "AutoApproved" => permission.result = TRUE
               /\ outcome = "AutoDenied" => permission.result = FALSE
               /\ outcome = "NeedsWalletApproval" => permission.result \notin {TRUE, FALSE}

\* C6 as amended: check_permission returns True exactly when the request is an
\* emergency under auto_share_emergency, or the requester type is in
\* share_with and either no consent is required or the request is an
\* emergency; in every other case, a required consent included, it returns
\* False.
C6_Precedence ==
    permission.called
        => permission.result =
              /\ permission.found
              /\ \/ permission.is_emergency /\ permission.policy.auto_share_emergency
                 \/ /\ permission.requester_type \in permission.policy.share_with
                    /\ ~permission.policy.requires_consent \/ permission.is_emergency

\* check_permission was asked about the policy share_with = {insurance},
\* requires_consent, auto_share_emergency for an insurance requester outside
\* an emergency, and returned False
C6_Witness ==
    /\ permission.called
    /\ permission.found
    /\ permission.policy = Policy({"insurance"}, TRUE, TRUE)
    /\ permission.requester_type = "insurance"
    /\ ~permission.is_emergency
    /\ permission.result = FALSE

----------------------------------------------------------------------------
(* The history view: wallet/entity_wallet.py, _render_messages_tab *)

\* the last of the positions kept, 0 (None) without one
LastIndex(kept) ==
    IF kept = {} THEN 0 ELSE CHOOSE i \in kept : \A j \in kept : j <= i

\* message_pairs: per request_id the request and the response the loop
\* leaves in the pair (each later message replaces the earlier one)
MessagePairs(msgs) ==
    [rid \in {msgs[i].request_id : i \in DOMAIN msgs} |->
        [request |-> LastIndex({i \in DOMAIN msgs :
                                   /\ msgs[i].request_id = rid
                                   /\ msgs[i].interaction_type # "response"}),
         response |-> LastIndex({i \in DOMAIN msgs :
                                    /\ msgs[i].request_id = rid
                                    /\ msgs[i].interaction_type = "response"})]]

\* C14: an inbound request of a DID is shown as awaiting its response exactly
\* when no later record of the DID's history is a response with the same
\* request_id.
C14_HistoryPairing ==
    \A did \in Parties :
        \A i \in DOMAIN EntityInteractions(interactions, did) :
            (/\ EntityInteractions(interactions, did)[i].destination_identifier = did
             /\ EntityInteractions(interactions, did)[i].interaction_type # "response")
                => ((MessagePairs(EntityInteractions(interactions, did))
                        [EntityInteractions(interactions, did)[i].request_id].response = 0)
                    <=> ~\E j \in DOMAIN EntityInteractions(interactions, did) :
                            /\ j > i
                            /\ EntityInteractions(interactions, did)[j].interaction_type
                                  = "response"
                            /\ EntityInteractions(interactions, did)[j].request_id
                                  = EntityInteractions(interactions, did)[i].request_id)


----------------------------------------------------------------------------
(* Ledger writes in flight: BlockchainService._build_and_send_transaction *)

\* lines 41-54: the operation reads the transaction count of its account and
\* builds its transaction with that nonce
GetTransactionCount(t, account) ==
    /\ txPc[t] = "idle"
    /\ Len(txLog) + Cardinality({u \in 1..NumSenders : txPc[u] = "built"}) < MaxTx
    /\ txPc' = [txPc EXCEPT ![t] = "built"]
    /\ txAccount' = [txAccount EXCEPT ![t] = account]
    /\ txNonce' = [txNonce EXCEPT ![t] = txCount[account]]
    /\ UNCHANGED <<txCount, txLog, poolVars, concVars, idVars, walletVars, consentVars,
                   inboxLog>>

\* lines 56-63: the transaction is signed and sent; the ledger takes it when
\* its nonce is the account's transaction count and refuses it otherwise
SendRawTransaction(t) ==
    /\ txPc[t] = "built"
    /\ txLog' = Append(txLog, [account |-> txAccount[t], nonce |-> txNonce[t],
                               accepted |-> txNonce[t] = txCount[txAccount[t]]])
    /\ txCount' = IF txNonce[t] = txCount[txAccount[t]]
                  THEN [txCount EXCEPT ![txAccount[t]] = @ + 1]
                  ELSE txCount
    /\ txPc' = [txPc EXCEPT ![t] = "idle"]
    /\ UNCHANGED <<txAccount, txNonce, poolVars, concVars, idVars, walletVars, consentVars,
                   inboxLog>>

NextNonce ==
    \/ \E t \in 1..NumSenders, account \in Accounts : GetTransactionCount(t, account)
    \/ \E t \in 1..NumSenders : SendRawTransaction(t)

SpecNonce == InitWallets /\ [][NextNonce]_vars

\* C17: ledger writes of one signing identity are serialized around nonce
\* fetch and submit: no two transactions sent for one account carry the same
\* nonce, and none is refused for its nonce.
C17_NoncesSerialized ==
    /\ \A i \in DOMAIN txLog : txLog[i].accepted
    /\ \A i \in DOMAIN txLog : \A j \in DOMAIN txLog :
          (i < j /\ txLog[i].account = txLog[j].account)
              => txLog[i].nonce # txLog[j].nonce

----------------------------------------------------------------------------
(* Credentials: create_credential, verify_credential, verify_signature *)

\* the claims the issuing pages hand over
ClaimSets == {[vin |-> 1, type |-> "VehicleRegistrationCredential"], [vin |-> 2]}

\* sign_message: a signature is told by the key that made it and the bytes
\* it was made over
SignMessage(did, message) == [by |-> did, over |-> message]

\* verify_signature: get_keys or the verification raising gives False
VerifySignature(ks, did, message, signature) ==
    IF did \notin ks THEN FALSE
    ELSE IF "by" \notin DOMAIN signature THEN FALSE
    ELSE signature.by = did /\ signature.over = message

\* getCredential(credential_id) of the ledger: what was persisted under the id
GetCredential(ledgerDocs, credential_id, readfail) ==
    IF readfail \/ credential_id \notin DOMAIN ledgerDocs
    THEN [found |-> FALSE, text |-> JsonDumps(NoDoc)]
    ELSE [found |-> TRUE, text |-> ledgerDocs[credential_id]]

\* create_credential(issuer_did, subject_did, claims)
CreateCredential(issuer_did, subject_did, claims, e) ==
    /\ idCalls < MaxIdCalls
    /\ idCalls' = idCalls + 1
    /\ \E r \in {GetAddress(addresses, addrFile, issuer_did, registered, funded,
                            e.qfail, e.balfail)} :
       \E credential_id \in {MaxUuid + nextUuid} :
       \E body \in {[id |-> credential_id,
                     type |-> IF "type" \in DOMAIN claims
                              THEN <<"VerifiableCredential", claims.type>>
                              ELSE <<"VerifiableCredential">>,
                     issuer |-> issuer_did,
                     credentialSubject |-> [id |-> subject_did, claims |-> claims]]} :
       \E credential \in {[f \in (DOMAIN body) \cup {"proof"} |->
                              IF f = "proof"
                              THEN [verificationMethod |-> issuer_did,
                                    signatureValue |->
                                        SignMessage(issuer_did, JsonDumps(body))]
                              ELSE body[f]]} :
       \E signed \in {r.result # None /\ issuer_did \in keys /\ ~e.keyraise} :
       \E st \in {StoreDidDocument(docs, credential_id, JsonDumps(credential), e.ent)} :
          /\ addresses' = r.addresses
          /\ addrFile' = r.file
          /\ docs' = IF signed THEN st.docs ELSE docs
          /\ nextUuid' = IF r.result # None THEN nextUuid + 1 ELSE nextUuid
          /\ lastOp' = [op |-> "create_credential", ok |-> signed /\ st.status,
                        id |-> credential_id, issuer |-> issuer_did,
                        signed |-> signed, out |-> e.ent,
                        credential |-> credential]
    /\ UNCHANGED <<registered, funded, poolLog, concVars, ledgerUsers, keys, signer,
                   transfers, walletVars, consentVars, nonceVars, inboxLog>>

\* store_did_document(credential_id, text) by any other holder of an account:
\* the stored credential with other claims under its old proof, or text that
\* is no JSON
StoreOver(credential_id, claims, malformed) ==
    /\ idCalls < MaxIdCalls
    /\ idCalls' = idCalls + 1
    /\ credential_id \in DOMAIN docs
    /\ "json" \in DOMAIN docs[credential_id]
    /\ docs' = [docs EXCEPT ![credential_id] =
                   IF malformed THEN [raw |-> "{"]
                   ELSE JsonDumps([JsonLoads(@) EXCEPT !.credentialSubject.claims = claims])]
    /\ lastOp' = [op |-> "store", ok |-> TRUE, id |-> credential_id]
    /\ UNCHANGED <<poolVars, concVars, ledgerUsers, keys, signer, nextUuid, transfers,
                   walletVars, consentVars, nonceVars, inboxLog>>

\* verify_credential(credential_id): the parsed credential, None, or the
\* exception of json.loads
VerifyCredential(credential_id, readfail) ==
    /\ idCalls < MaxIdCalls
    /\ idCalls' = idCalls + 1
    /\ \E data \in {GetCredential(docs, credential_id, readfail)} :
          lastOp' = [op |-> "verify_credential", ok |-> TRUE, id |-> credential_id,
                     readfail |-> readfail,
                     result |-> IF ~data.found THEN "None"
                                ELSE IF "json" \notin DOMAIN data.text THEN "raised"
                                ELSE "credential"]
    /\ UNCHANGED <<poolVars, concVars, ledgerUsers, docs, keys, signer, nextUuid,
                   transfers, walletVars, consentVars, nonceVars, inboxLog>>

\* verify_signature(did, message, signature) as a caller gets it
VerifySignatureCall(did, message, signature) ==
    /\ idCalls < MaxIdCalls
    /\ idCalls' = idCalls + 1
    /\ lastOp' = [op |-> "verify_signature", ok |-> TRUE, did |-> did,
                  genuine |-> signature = SignMessage(did, message),
                  result |-> VerifySignature(keys, did, message, signature)]
    /\ UNCHANGED <<poolVars, concVars, ledgerUsers, docs, keys, signer, nextUuid,
                   transfers, walletVars, consentVars, nonceVars, inboxLog>>

NextCredential ==
    \/ \E issuer_did \in 1..3, subject_did \in 1..2, claims \in ClaimSets,
          e \in WithPoolFaults({Calm, [Calm EXCEPT !.keyraise = TRUE]}
                               \cup {[Calm EXCEPT !.ent = o] : o \in Failures}) :
          CreateCredential(issuer_did, subject_did, claims, e)
    \/ \E credential_id \in {d \in DOMAIN docs : d > MaxUuid}, claims \in ClaimSets,
          malformed \in BOOLEAN :
          StoreOver(credential_id, claims, malformed)
    \/ \E credential_id \in {d \in DOMAIN docs : d > MaxUuid} \cup {MaxUuid + MaxUuid},
          readfail \in BOOLEAN :
          VerifyCredential(credential_id, readfail)
    \/ \E did \in 1..3, m \in ClaimSets,
          signature \in {SignMessage(1, JsonDumps(c)) : c \in ClaimSets}
                           \cup {[raw |-> "{"]} :
          VerifySignatureCall(did, JsonDumps(m), signature)

SpecCredential == InitIdentity /\ [][NextCredential]_vars

\* the stored text is a credential whose proof verifies over the credential
\* without it, under the issuer's key
ProofHolds(ledgerDocs, ks, credential_id) ==
    /\ credential_id \in DOMAIN ledgerDocs
    /\ "json" \in DOMAIN ledgerDocs[credential_id]
    /\ \E credential \in {JsonLoads(ledgerDocs[credential_id])} :
          VerifySignature(ks, credential.issuer,
                          JsonDumps([f \in (DOMAIN credential) \ {"proof"} |->
                                        credential[f]]),
                          credential.proof.signatureValue)

\* C27: create_credential fails, returning no credential and leaving the
\* ledger as it was, when the issuer has no stored keys or when the store
\* fails; when it succeeds the credential is on the ledger under an id that
\* was not there before, with its proof.
C27_IssueFailsClean ==
    [][(lastOp'.op = "create_credential" /\ idCalls' # idCalls)
          => /\ (lastOp'.issuer \notin keys \/ lastOp'.out # "ok") => ~lastOp'.ok
             /\ IF lastOp'.ok
                THEN /\ lastOp'.id \notin DOMAIN docs
                     /\ docs' = DictSet(docs, lastOp'.id, JsonDumps(lastOp'.credential))
                     /\ ProofHolds(docs', keys, lastOp'.id)
                ELSE docs' = docs]_vars

\* a creation failed at the store, after an earlier one had succeeded
C27_Witness ==
    /\ lastOp.op = "create_credential"
    /\ lastOp.signed
    /\ ~lastOp.ok
    /\ \E d \in DOMAIN docs : d > MaxUuid

\* C28: verify_signature and verify_credential answer and never raise,
\* whatever the DID, the keys, the signature and the stored text are.
C28_VerifyNeverThrows ==
    /\ lastOp.op = "verify_credential" => lastOp.result # "raised"
    /\ lastOp.op = "verify_signature" => lastOp.result \in BOOLEAN

\* C22: verify_credential answers a credential as issued with true (the
\* credential), and answers false as soon as a signed field of the stored
\* credential was changed: it recomputes the signature check over the form
\* that was signed.
C22_RoundTrip ==
    (lastOp.op = "verify_credential" /\ ~lastOp.readfail)
        => (lastOp.result = "credential" <=> ProofHolds(docs, keys, lastOp.id))

----------------------------------------------------------------------------
(* Claims about DIDService.record_interaction *)

\* C15: record signs with the address the pool binds to its source; when no
\* signer can be resolved for the source it fails and submits nothing, so no
\* transaction goes out under the key of another identity.
C15_SignedBySource ==
    lastRecord.called
        => IF lastRecord.resolved
           THEN lastRecord.submitted => lastRecord.signed_by = lastRecord.bound
           ELSE ~lastRecord.submitted /\ ~lastRecord.tx_hash

\* C16: record returns a transaction handle only for a transaction the ledger
\* accepted: when the ledger is unavailable or refuses the write, the caller
\* gets a failure and the history is unchanged.
C16_HandleOnlyWhenAccepted ==
    (lastRecord.called /\ lastRecord.out # "ok")
        => ~lastRecord.tx_hash /\ ~lastRecord.recorded


----------------------------------------------------------------------------
(* Claims about respond_to_request *)

\* the entries of a pass whose parsed decision is approve and whose parsed
\* wallet approval is no, and whose transaction met one of the outcomes
Resolving(entries, outcomes) ==
    {i \in DOMAIN entries : /\ entries[i].decision = "approve"
                            /\ entries[i].wallet_approval = "no"
                            /\ entries[i].out \in outcomes}

\* the pass recorded, in order, exactly one approval response carrying the
\* request_id for each entry of Q and nothing else
RecordedExactly(before, after, did, entries, Q) ==
    /\ Len(after) = Len(before) + Cardinality(Q)
    /\ SubSeq(after, 1, Len(before)) = before
    /\ \A i \in Q :
          \E rec \in {after[Len(before) + Cardinality({j \in Q : j <= i})]} :
             /\ rec.interaction_type = "response"
             /\ rec.response_type = "approval"
             /\ rec.request_id = entries[i].request_id
             /\ rec.source_identifier = did
             /\ rec.destination_identifier = entries[i].source

----------------------------------------------------------------------------
(* Claims about WalletService.respond_to_request *)

\* C19: a step that answers a pending request of a wallet removes the item
\* from the wallet's pending_requests, so that get_pending_requests no longer
\* returns it, and hands one response to the ledger.
C19_RespondRemovesAndRecords ==
    [][\A d \in DOMAIN wallets : \A i \in DOMAIN wallets[d].pending_requests :
          (/\ wallets[d].pending_requests[i].status = "pending"
           /\ d \in DOMAIN wallets'
           /\ \/ i \notin DOMAIN wallets'[d].pending_requests
              \/ wallets'[d].pending_requests[i] # wallets[d].pending_requests[i])
             => /\ \A k \in DOMAIN wallets'[d].pending_requests :
                      wallets'[d].pending_requests[k].id
                         # wallets[d].pending_requests[i].id
                /\ Len(interactions') = Len(interactions) + 1
                /\ interactions'[Len(interactions')].interaction_type = "response"]_vars


----------------------------------------------------------------------------
(* Claims about the life of a wallet record *)

\* the record get_wallet hands out: the policy values are those the record's
\* inner dicts hold at the time
WalletRecord(ws, pols, did) ==
    [did |-> ws[did].did, policies |-> pols[ws[did].policies],
     pending_requests |-> ws[did].pending_requests]

\* C29: a wallet is created with the default policy matrix and nothing
\* pending; create_wallet for a DID that has a wallet leaves its record as it
\* was; check_permission, a read, leaves every record as it was.
C29_WalletLifecycle ==
    [][\A did \in Parties :
          /\ (did \notin DOMAIN wallets /\ did \in DOMAIN wallets')
                => WalletRecord(wallets', policies', did)
                      = [did |-> did, policies |-> DefaultPolicies,
                         pending_requests |-> <<>>]
          /\ (did \in DOMAIN wallets /\ CreateWallet(did))
                => WalletRecord(wallets', policies', did)
                      = WalletRecord(wallets, policies, did)
          /\ (did \in DOMAIN wallets
                /\ \E requester_type \in RequesterTypes, owner_did \in Parties,
                      data_type \in RequestedTypes, is_emergency \in BOOLEAN :
                      CheckPermission(requester_type, owner_did, data_type, is_emergency))
                => WalletRecord(wallets', policies', did)
                      = WalletRecord(wallets, policies, did)]_vars

\* C34: update_policy(d1, data_type, policy) changes the policy of d1 for
\* data_type only: the policies of every other wallet, the policies of d1 for
\* the other data types and the matrix a wallet created later is given stay
\* as they were.
C34_PoliciesPerIdentity ==
    [][\A d1 \in Parties, data_type \in RequestedTypes, policy \in PolicyChoices :
          UpdatePolicy(d1, data_type, policy)
             => /\ \A d2 \in DOMAIN wallets \ {d1} :
                      WalletRecord(wallets', policies', d2).policies
                         = WalletRecord(wallets, policies, d2).policies
                /\ \A other \in DataTypes \ {data_type} :
                      d1 \in DOMAIN wallets
                         => WalletRecord(wallets', policies', d1).policies[other]
                               = WalletRecord(wallets, policies, d1).policies[other]
                /\ policies'[NewWallet(d1).policies] = policies[NewWallet(d1).policies]]_vars

----------------------------------------------------------------------------
(* Claims about a failing oracle *)

\* C21: when the oracle call fails, the evaluation takes the safe-deny
\* branch: the request is not approved, the pass records no response for it,
\* and the request is handed back as after any other evaluation (nothing is
\* raised to the caller).
C21_FailureDenies ==
    [][evalLog'.call # evalLog.call
          => /\ \A i \in DOMAIN evalLog'.entries :
                   evalLog'.entries[i].failed
                      => /\ ~evalLog'.entries[i].llm_decision
                         /\ ~evalLog'.entries[i].recorded
                         /\ evalLog'.entries[i].returned = "response_body"
             /\ Len(interactions') - Len(interactions)
                   <= Cardinality({i \in DOMAIN evalLog'.entries :
                                      ~evalLog'.entries[i].failed})]_vars

\* a pass met a failure of get_prefrences and a failure of the model
C21_Witness ==
    /\ Len(evalLog.entries) = 2
    /\ evalLog.entries[1].failed /\ ~evalLog.entries[1].invoked
    /\ evalLog.entries[2].failed /\ evalLog.entries[2].invoked

----------------------------------------------------------------------------
(* Claims about repeated passes of get_wallet_requests *)

\* C30: an inbound record that a pass of get_wallet_requests for a DID has
\* processed is not processed again by the next pass for that DID: if the
\* oracle was consulted for it, it is not consulted again, and if an automatic
\* response was recorded for it, no further one is.  The ledger only appends,
\* so the records of the earlier pass are the first records of the later one.
C30_ProcessedOnce ==
    [][(evalLog'.call # evalLog.call /\ evalLog'.did = evalLog.did)
          => \A i \in DOMAIN evalLog'.entries :
                i \in DOMAIN evalLog.entries
                   => /\ evalLog'.entries[i].request_id = evalLog.entries[i].request_id
                      /\ evalLog.entries[i].invoked => ~evalLog'.entries[i].invoked
                      /\ evalLog.entries[i].recorded => ~evalLog'.entries[i].recorded]_vars

----------------------------------------------------------------------------
(* One DIDService under concurrent request threads: update_did_document,   *)
(* one step per statement that reads or writes self.blockchain_service or  *)
(* the ledger.  The pool's get_address runs as one step here.              *)

\* the deployment create_did (user 1), register_vehicle (vehicle 3, owned by
\* user 1) and create_did (user 5) of an earlier run have left
SharedDeployment ==
    [addresses |-> [available |-> SubSeq(TestAccounts, 4, NumAccounts),
                    used |-> DictSet(DictSet(DictSet(EmptyUsed, 1, AddressData(1)),
                                             3, AddressData(2)), 5, AddressData(3))],
     registered |-> {1, 2, 3},
     ledgerUsers |-> DictSet(DictSet(DictSet(NoUsers, 1, [entity |-> 1, wallet |-> 2]),
                                     2, [entity |-> 3, wallet |-> 4]),
                             3, [entity |-> 5, wallet |-> 6]),
     docs |-> DictSet(DictSet(DictSet(DictSet(DictSet(DictSet(NoDocs,
                 1, JsonDumps(AppendInfo(EntityDocument(1, 2), OwnedVehicleBlock(3, 4)))),
                 2, JsonDumps(WalletDocument(1, 2))),
                 3, JsonDumps(VehicleDocument(3, 4, 1))),
                 4, JsonDumps(VehicleWalletDocument(3, 4))),
                 5, JsonDumps(EntityDocument(5, 6))),
                 6, JsonDumps(WalletDocument(5, 6))),
     keys |-> 1..6]

\* the users and the vehicle the pages offer
SharedUsers == {1, 5}

SharedVehicles == {3}

\* DIDService.__init__ over that deployment, no request being served
InitShared ==
    /\ funded = Accounts
    /\ poolLog = [op |-> "init", id |-> 0, result |-> None]
    /\ IdleThreads
    /\ InitWalletState
    /\ InitNonces
    /\ inboxLog = [vehicle |-> NoDid, signals |-> {}, call |-> 0, requests |-> <<>>]
    /\ addresses = SharedDeployment.addresses
    /\ addrFile = SaveAddresses(SharedDeployment.addresses)
    /\ registered = SharedDeployment.registered
    /\ ledgerUsers = SharedDeployment.ledgerUsers
    /\ docs = SharedDeployment.docs
    /\ keys = SharedDeployment.keys
    /\ signer = 0
    /\ nextUuid = 7
    /\ lastOp = [op |-> "init", ok |-> FALSE, cause |-> "none", entity |-> NoDid,
                 wallet |-> NoDid, address |-> 0, mode |-> "none"]
    /\ transfers = [d \in {} |-> <<>>]
    /\ idCalls = 0

sharedFrame == <<funded, poolLog, held, keys, nextUuid, idCalls, walletVars, consentVars,
                 nonceVars, inboxLog>>

\* a request thread enters update_did_document(did, car_did, credential)
ThreadBegin(t, did, car_did, credNone) ==
    /\ pc[t] = "idle"
    /\ calls < MaxCalls
    /\ UpdateWithinBounds(did, car_did, credNone)
    /\ calls' = calls + 1
    /\ pc' = [pc EXCEPT ![t] = "set"]
    /\ uid' = [uid EXCEPT ![t] = UpdateTarget(did, car_did, credNone)]
    /\ loc' = [loc EXCEPT ![t] = [did |-> did, car_did |-> car_did,
                                  credNone |-> credNone, doc |-> NoDoc]]
    /\ UNCHANGED <<addresses, addrFile, registered, ledgerUsers, docs, signer, lastOp,
                   transfers, sharedFrame>>

\* lines 578, 604 and 632: self.set_account_address(...) replaces
\* self.blockchain_service, the attribute every thread reads
ThreadSetAddress(t) ==
    /\ pc[t] = "set"
    /\ \E S1 \in {SetAccountAddress(IdState, uid[t], Calm)} :
          /\ addresses' = S1.addresses
          /\ addrFile' = S1.addrFile
          /\ signer' = S1.signer
    /\ pc' = [pc EXCEPT ![t] = "read"]
    /\ UNCHANGED <<registered, ledgerUsers, docs, lastOp, transfers, uid, loc, calls,
                   sharedFrame>>

\* lines 579, 606 and 634: self.blockchain_service.get_did_document(...)
ThreadGetDocument(t) ==
    /\ pc[t] = "read"
    /\ loc' = [loc EXCEPT ![t].doc = GetDidDocument(docs, ledgerUsers, uid[t], FALSE)]
    /\ pc' = [pc EXCEPT ![t] = "store"]
    /\ UNCHANGED <<addresses, addrFile, registered, ledgerUsers, docs, signer, lastOp,
                   transfers, uid, calls, sharedFrame>>

\* lines 596, 624 and 664: the local document changed and handed to
\* self.blockchain_service.store_did_document, whose account signs the write
ThreadStore(t) ==
    /\ pc[t] = "store"
    /\ \E item \in SampleItems :
       \E e \in {Calm} \cup {[Calm EXCEPT !.upd = o] : o \in Failures} :
       \E r \in {UpdateStore(IdState, loc[t].doc,
                             UpdateMode(loc[t].car_did, loc[t].credNone), uid[t],
                             loc[t].did, loc[t].credNone, item, e)} :
          /\ addresses' = r.S.addresses
          /\ addrFile' = r.S.addrFile
          /\ docs' = r.S.docs
          /\ lastOp' = [op |-> "store", ok |-> r.status, cause |-> "none",
                        entity |-> uid[t], wallet |-> loc[t].did,
                        address |-> signer, mode |-> r.mode]
          /\ transfers' =
                IF r.mode = "transfer" /\ r.status
                THEN DictSet(transfers, uid[t],
                       Append(IF uid[t] \in DOMAIN transfers
                              THEN transfers[uid[t]] ELSE <<>>,
                              [old |-> FirstBlock(loc[t].doc).owner_did,
                               new |-> loc[t].did]))
                ELSE transfers
    /\ pc' = [pc EXCEPT ![t] = "idle"]
    /\ UNCHANGED <<registered, ledgerUsers, signer, uid, loc, calls, sharedFrame>>

NextShared ==
    \/ \E t \in Threads, did \in SharedUsers, car_did \in SharedVehicles \cup {NoDid},
          credNone \in BOOLEAN : ThreadBegin(t, did, car_did, credNone)
    \/ \E t \in Threads : ThreadSetAddress(t)
    \/ \E t \in Threads : ThreadGetDocument(t)
    \/ \E t \in Threads : ThreadStore(t)

SpecShared == InitShared /\ [][NextShared]_vars

\* C31: every write of a document is signed with the account the pool has
\* bound to the identity the writing operation named, also when operations
\* for different identities interleave on the one service.
C31_OwnSigner ==
    lastOp.op = "store"
        => /\ lastOp.entity \in DOMAIN addresses.used
           /\ lastOp.address = addresses.used[lastOp.entity].address

\* C35: no ownership transfer is lost: previous_owners of a vehicle document
\* has one entry per transfer that reported success, and from the second
\* transfer on the entry is the owner the transfer before installed.
C35_NoLostTransfer ==
    \A d \in DOMAIN transfers :
        /\ Len(FirstBlock(JsonLoads(docs[d])).previous_owners) = Len(transfers[d])
        /\ \A i \in 2..Len(transfers[d]) :
              FirstBlock(JsonLoads(docs[d])).previous_owners[i] = transfers[d][i - 1].new

----------------------------------------------------------------------------
(* One evaluation, from the call of the model to its answer: the handler   *)
(* get_wallet_requests is a coroutine that calls respond_to_request        *)
(* directly, so the server's event loop runs one evaluation at a time.     *)

waitFrame == <<poolVars, held, calls, ledgerUsers, docs, keys, nextUuid, lastOp, transfers,
               idCalls, walletVars, nonceVars, inboxLog>>

\* respond_to_request(request, responder_did) is entered for an inbound
\* request of did
EvalBegin(t, did, source, request_id) ==
    /\ \A u \in Threads : pc[u] = "idle"
    /\ served < MaxServed
    /\ pc' = [pc EXCEPT ![t] = "received"]
    /\ uid' = [uid EXCEPT ![t] = did]
    /\ loc' = [loc EXCEPT ![t] = Interaction("request", source, did, request_id, "none")]
    /\ UNCHANGED <<interactions, oracleCalls, evalLog, lastRecord, served, signer, waitFrame>>

\* the answer of evaluate_request worked into the response and, for an
\* approval, recorded on the ledger
EvalResolve(t, answer) ==
    \E entries \in {<<RespondToRequest(loc[t], EvaluateRequest(answer),
                                       IsBlocked(blocked_users, uid[t],
                                                 loc[t].source_identifier),
                                       answer.out)>>} :
    \E r \in {IF entries[1].returned = "response_body"
              THEN [S |-> IdState, log |-> lastRecord]
              ELSE RecordInteraction(IdState, uid[t], answer.out, Calm)} :
       /\ Len(interactions) + Len(ResponsesOf(entries, uid[t], r.S.signer))
             <= MaxInteractions
       /\ interactions' = interactions \o ResponsesOf(entries, uid[t], r.S.signer)
       /\ oracleCalls' = oracleCalls + IF entries[1].invoked THEN 1 ELSE 0
       /\ evalLog' = [did |-> uid[t], entries |-> entries, call |-> served + 1]
       /\ served' = served + 1
       /\ signer' = r.S.signer
       /\ lastRecord' = r.log
       /\ pc' = [pc EXCEPT ![t] = "idle"]
       /\ UNCHANGED <<uid, loc, waitFrame>>

\* evaluate_request up to the call of the model (lines 169-190): get_prefrences
\* or craft_prompt raises and the except branch answers, or generate_content
\* is called and the thread waits in it
EvalCall(t) ==
    /\ pc[t] = "received"
    /\ \/ EvalResolve(t, [raises |-> "preferences", text |-> <<>>, out |-> "ok"])
       \/ /\ pc' = [pc EXCEPT ![t] = "waiting"]
          /\ UNCHANGED <<interactions, oracleCalls, evalLog, lastRecord, served, signer,
                         uid, loc, waitFrame>>

\* the model call returns or raises (line 143); nothing makes it do either
EvalReturn(t, answer) ==
    /\ pc[t] = "waiting"
    /\ answer.raises # "preferences"
    /\ EvalResolve(t, answer)

NextWaiting ==
    \/ \E t \in Threads, did \in Parties, source \in Parties, request_id \in Rids :
          EvalBegin(t, did, source, request_id)
    \/ \E t \in Threads : EvalCall(t)
    \/ \E t \in Threads, answer \in OracleAnswers : EvalReturn(t, answer)

\* the server runs its own statements; the model is an outside service whose
\* answer nothing in the code bounds in time
SpecWaiting ==
    /\ InitConsent
    /\ [][NextWaiting]_vars
    /\ \A t \in Threads : WF_vars(EvalCall(t))

\* C32: every request that was received is eventually resolved, the model
\* answering, raising or never returning.
C32_EventuallyResolved ==
    \A t \in Threads : (pc[t] = "received") ~> (pc[t] = "idle")

----------------------------------------------------------------------------
(* The wallet's queue, messages and files: add_pending_request,            *)
(* remove_pending_request, get_pending_requests, store_didcomm_message and *)
(* a restart of the WalletService                                          *)

MaxStamp == 2           \* readings of the clock the callers and the wallet take

Stamps == 1..MaxStamp

\* create_didcomm_message, line 756: the type is the message_type behind the
\* protocol's prefix
DidcommType(message_type) ==
    IF message_type = "request" THEN "https://didcomm.org/iov/1.0/request"
    ELSE IF message_type = "mechanic_request"
    THEN "https://didcomm.org/iov/1.0/mechanic_request"
    ELSE "https://didcomm.org/iov/1.0/response"

\* create_didcomm_message: the envelope, uuid being what uuid4 drew; it has a
\* created_time and no timestamp (0)
CreateDidcommMessage(sender_did, recipient_did, message_type, uuid) ==
    [type |-> DidcommType(message_type), id |-> <<-1, uuid>>, from |-> sender_did,
     to |-> recipient_did, timestamp |-> 0]

\* the element behind those that are as early or earlier
InsertByTimestamp_Ascending(sorted, request) ==
    LET k == Cardinality({i \in DOMAIN sorted : sorted[i].timestamp <= request.timestamp})
    IN  SubSeq(sorted, 1, k) \o <<request>> \o SubSeq(sorted, k + 1, Len(sorted))

\* sorted(requests, key=timestamp, reverse=True) one element at a time: the
\* element goes behind those that are as late or later, so equal timestamps
\* keep their order
InsertByTimestamp(sorted, request) ==
    LET k == Cardinality({i \in DOMAIN sorted : sorted[i].timestamp >= request.timestamp})
    IN  SubSeq(sorted, 1, k) \o <<request>> \o SubSeq(sorted, k + 1, Len(sorted))

RECURSIVE SortedByTimestamp(_)
\* get_pending_requests, lines 241-243
SortedByTimestamp(requests) ==
    IF requests = <<>> THEN <<>>
    ELSE InsertByTimestamp(SortedByTimestamp(SubSeq(requests, 1, Len(requests) - 1)),
                           requests[Len(requests)])

queueFrame == <<permission, interactions, oracleCalls, evalLog, lastRecord, poolVars,
                concVars, idVars, nonceVars>>

\* get_pending_requests(did), as the inbox tab calls it
GetPendingRequests(did) ==
    /\ inboxLog' = [vehicle |-> did, signals |-> {}, call |-> served,
                    requests |-> IF did \in DOMAIN wallets
                                 THEN SortedByTimestamp(wallets[did].pending_requests)
                                 ELSE <<>>]
    /\ UNCHANGED <<walletVars, served, queueFrame>>

\* remove_pending_request(did, request), request being an item of the queue
\* (it has an id)
RemovePendingRequest(did, request) ==
    /\ Serve
    /\ IF did \in DOMAIN wallets
       THEN wallets' = [wallets EXCEPT ![did].pending_requests =
                           SelectSeq(@, LAMBDA req : req.id # request.id)]
       ELSE UNCHANGED wallets
    /\ UNCHANGED <<walletFiles, policies, notifications, messages, blocked_users, inboxLog,
                   queueFrame>>

\* store_didcomm_message(did, message): the message is stamped and appended,
\* and queued when its type is the word request
StoreDidcommMessage(did, message, now) ==
    /\ Serve
    /\ \E stamped \in {IF message.timestamp = 0 THEN [message EXCEPT !.timestamp = now]
                       ELSE message} :
       \E msgs \in {DictSet(messages, did, Append(DictGet(messages, did), stamped))} :
          IF stamped.type = "request"
          THEN QueueRequest(did, [id |-> stamped.id, sender_did |-> NoDid,
                                  timestamp |-> stamped.timestamp], msgs)
          ELSE /\ messages' = msgs
               /\ UNCHANGED <<wallets, walletFiles, notifications, blocked_users>>
    /\ UNCHANGED <<policies, inboxLog, queueFrame>>

\* WalletService.__init__ of a new process: load_wallets reads every file,
\* each wallet with the policies its file holds, and the other dicts are empty
LoadWallets ==
    /\ Serve
    /\ wallets' = [did \in DOMAIN walletFiles |->
                      [did |-> JsonLoads(walletFiles[did]).did, policies |-> did,
                       pending_requests |-> JsonLoads(walletFiles[did]).pending_requests]]
    /\ policies' = [ref \in {0} \cup DOMAIN walletFiles |->
                       IF ref = 0 THEN DefaultPolicies
                       ELSE JsonLoads(walletFiles[ref]).policies]
    /\ notifications' = NoDict
    /\ messages' = NoDict
    /\ blocked_users' = NoDict
    /\ UNCHANGED <<walletFiles, inboxLog, queueFrame>>

\* the messages stored for did at call number uuid: the envelopes the pages
\* and the server build, and a message whose type is the bare word
StoredMessages(did, uuid) ==
    {CreateDidcommMessage(s, did, mt, uuid) : s \in Parties, mt \in {"request", "response"}}
       \cup {[type |-> "request", id |-> <<-1, uuid>>, from |-> s, to |-> did,
              timestamp |-> 0] : s \in Parties}

NextQueue ==
    \/ \E did \in Parties : CreateWallet(did)
    \/ \E did \in Parties, sender_did \in Parties, timestamp \in Stamps, now \in Stamps :
          AddPendingRequest(did, sender_did, timestamp, now)
    \/ \E did \in Parties :
          \E request \in Range(IF did \in DOMAIN wallets THEN wallets[did].pending_requests
                               ELSE <<>>) : RemovePendingRequest(did, request)
    \/ \E did \in Parties : GetPendingRequests(did)
    \/ \E did \in Parties, now \in Stamps :
          \E message \in StoredMessages(did, served) : StoreDidcommMessage(did, message, now)

SpecQueue == InitWallets /\ [][NextQueue]_vars

\* a wallet directory over restarts of the service
NextRestart ==
    \/ \E did \in Parties : CreateWallet(did)
    \/ \E did \in Parties, data_type \in RequestedTypes, policy \in PolicyChoices :
          UpdatePolicy(did, data_type, policy)
    \/ LoadWallets

SpecRestart == InitWallets /\ [][NextRestart]_vars

----------------------------------------------------------------------------
(* Claims about the wallet files over a restart                            *)

\* C38: every successful update_policy reaches the wallet's file, so the
\* wallets a restarted service loads have, for each DID, the policies the
\* DID had when the service stopped.
C38_PoliciesSurviveRestart ==
    [][LoadWallets
          => \A did \in DOMAIN wallets :
                /\ did \in DOMAIN wallets'
                /\ policies'[wallets'[did].policies] = policies[wallets[did].policies]]_vars

----------------------------------------------------------------------------
(* Claims about the queue of pending requests                              *)

PendingOf(ws, did) == IF did \in DOMAIN ws THEN ws[did].pending_requests ELSE <<>>

\* C36: remove_pending_request(did, request) takes exactly that request out
\* of the queue: the queue after it is the queue before it without one
\* position, the one holding the request; every other request stays, a
\* request of the same sender queued within the same second included.
C36_RemovesExactlyOne ==
    [][\A did \in Parties :
          \A request \in Range(PendingOf(wallets, did)) :
             RemovePendingRequest(did, request)
                => \E i \in DOMAIN PendingOf(wallets, did) :
                      /\ PendingOf(wallets, did)[i] = request
                      /\ PendingOf(wallets', did) =
                            SubSeq(PendingOf(wallets, did), 1, i - 1)
                               \o SubSeq(PendingOf(wallets, did), i + 1,
                                         Len(PendingOf(wallets, did)))]_vars

\* C39 as stated: get_pending_requests returns the requests in the order of
\* their arrival, the oldest first.
C39_OldestFirst ==
    [][\A did \in Parties :
          GetPendingRequests(did) => inboxLog'.requests = PendingOf(wallets, did)]_vars

\* C39 as amended: the queue is kept in arrival order (a step leaves it,
\* appends one request to it or takes requests out of it without reordering
\* the rest), and get_pending_requests returns all of it sorted by timestamp,
\* the newest first, requests of one timestamp in the order of their arrival.
C39_NewestFirst ==
    [][/\ \A did \in DOMAIN wallets :
             \/ PendingOf(wallets', did) = PendingOf(wallets, did)
             \/ /\ Len(PendingOf(wallets', did)) = Len(PendingOf(wallets, did)) + 1
                /\ SubSeq(PendingOf(wallets', did), 1, Len(PendingOf(wallets, did)))
                      = PendingOf(wallets, did)
             \/ \E request \in Range(PendingOf(wallets, did)) :
                   PendingOf(wallets', did) =
                      SelectSeq(PendingOf(wallets, did), LAMBDA req : req.id # request.id)
       /\ \A did \in Parties :
             GetPendingRequests(did)
                => /\ Len(inboxLog'.requests) = Len(PendingOf(wallets, did))
                   /\ \A i \in DOMAIN inboxLog'.requests :
                         \A j \in DOMAIN inboxLog'.requests :
                            i < j => inboxLog'.requests[i].timestamp
                                        >= inboxLog'.requests[j].timestamp
                   /\ \A t \in Stamps :
                         SelectSeq(inboxLog'.requests, LAMBDA req : req.timestamp = t)
                            = SelectSeq(PendingOf(wallets, did),
                                        LAMBDA req : req.timestamp = t)]_vars

\* two requests, the later one queued second, and the answer of
\* get_pending_requests with the later one first
C39_Witness ==
    /\ Len(inboxLog.requests) = 2
    /\ inboxLog.requests[1].timestamp > inboxLog.requests[2].timestamp
    /\ PendingOf(wallets, inboxLog.vehicle) = <<inboxLog.requests[2], inboxLog.requests[1]>>

\* C40: store_didcomm_message(did, m) of an envelope m that
\* create_didcomm_message built with message_type request leaves m in the
\* messages of did and in its pending requests; an envelope of another
\* message_type is stored and the queue is left as it was.
C40_RequestsAreQueued ==
    [][\A did \in Parties, now \in Stamps, sender_did \in Parties :
          \A message_type \in {"request", "response"} :
             \E m \in {CreateDidcommMessage(sender_did, did, message_type, served)} :
                StoreDidcommMessage(did, m, now)
                   => /\ did \in DOMAIN messages'
                      /\ \E k \in DOMAIN messages'[did] : messages'[did][k].id = m.id
                      /\ IF message_type = "request"
                         THEN \E k \in DOMAIN PendingOf(wallets', did) :
                                 PendingOf(wallets', did)[k].id = m.id
                         ELSE wallets' = wallets]_vars

----------------------------------------------------------------------------
(* The interaction types that reach the ledger: POST /request-data and     *)
(* POST /respond-to-req with the message_type the client sends            *)

\* DataRequest.message_type is any string: the word the server gives
\* create_didcomm_message, and a label of the request form of main.py
\* (lines 397-400) that its caller passes on (line 501)
ClientMessageTypes == {"request", "Traffic Data Request"}

\* the interaction types of an interaction record
LedgerTypes == {"request", "response", "mechanic_request", "mechanic_response"}

NextRecorded ==
    \/ \E sender_did \in Parties, recipient_did \in Parties, request_id \in Rids,
          message_type \in ClientMessageTypes, out \in SubmitOutcomes,
          e \in WithPoolFaults({Calm}) :
          RequestData(sender_did, recipient_did, request_id, message_type, out, e)
    \/ \E request_id \in Rids, responder_did \in Parties, recipient_did \in Parties,
          response_type \in ResponseTypes, out \in SubmitOutcomes,
          e \in WithPoolFaults({Calm}) :
          RespondToReq(request_id, responder_did, recipient_did, response_type, out, e)

SpecRecorded == InitConsent /\ [][NextRecorded]_vars

\* C37: every record on the ledger has one of the four interaction types,
\* and the record a request-data call writes has the type request, so that a
\* reader who selects the records of type request finds it.
C37_RecordedTypes ==
    [][/\ \A i \in DOMAIN interactions' : interactions'[i].interaction_type \in LedgerTypes
       /\ \A sender_did \in Parties, recipient_did \in Parties, request_id \in Rids,
             message_type \in ClientMessageTypes, out \in SubmitOutcomes,
             e \in WithPoolFaults({Calm}) :
             (/\ RequestData(sender_did, recipient_did, request_id, message_type, out, e)
              /\ Len(interactions') = Len(interactions) + 1)
                => interactions'[Len(interactions')].interaction_type = "request"]_vars

====
